---- MODULE Spec2Model ----
(***************************************************************************)
(* Model of SerialTreeLearner (src/treelearner/serial_tree_learner.cpp):   *)
(* the leaf-wise growth of one regression tree over a binned dataset.      *)
(*                                                                         *)
(* Scope of the model.  All features are numerical and have no missing     *)
(* values; every hessian is 1 (the constant-hessian path), so a hessian    *)
(* sum is a count; lambda_l1 = lambda_l2 = min_gain_to_split = 0 and       *)
(* max_delta_step is off; cost-efficient boosting is disabled              *)
(* (cegb_ = nullptr).  Gains and leaf outputs are fixed-point integers.    *)
(* Leaf ids, inner feature indices, bins and example indices are 0-based   *)
(* as in the code.                                                         *)
(***************************************************************************)
EXTENDS Integers, Sequences, FiniteSets, TLC

VARIABLES
  train_data_,          \* the Dataset: bins per inner feature, real feature indices
  gradients_,           \* score_t* gradients (hessians are all 1)
  config_,              \* the Config the learner reads
  forced_split_json,    \* the forced-split template handed to Train
  random_,              \* state of the learner's Random
  used_feature_indices_,
  is_feature_used_,     \* tree-level feature mask
  used_data_indices_,   \* DataPartition: the bagged indices, {} when none were set
  data_partition_,      \* leaf id -> set of example indices
  best_split_per_leaf_,
  constraints_,         \* leaf id -> [min, max]
  smaller_leaf_splits_,
  larger_leaf_splits_,
  histogram_pool_,      \* [mapper, lru, slots]
  smaller_leaf_histogram_array_,
  larger_leaf_histogram_array_,
  parent_leaf_histogram_array_,
  buffers,              \* the num_data each per-example buffer is sized for
  tree,                 \* the Tree under construction / returned
  loc,                  \* locals of Train and ForceSplits that live across steps
  pc,                   \* position of the caller / of Train
  hst                   \* observation of the run (no effect on the program)

inputs == <<train_data_, gradients_, config_, forced_split_json,
            used_data_indices_, buffers>>
sampling == <<random_, used_feature_indices_, is_feature_used_>>
both_leaf_splits == <<smaller_leaf_splits_, larger_leaf_splits_>>
histogram_arrays == <<smaller_leaf_histogram_array_,
                      larger_leaf_histogram_array_,
                      parent_leaf_histogram_array_>>

vars == <<train_data_, gradients_, config_, forced_split_json, random_,
          used_feature_indices_, is_feature_used_, used_data_indices_,
          data_partition_, best_split_per_leaf_, constraints_,
          smaller_leaf_splits_, larger_leaf_splits_, histogram_pool_,
          smaller_leaf_histogram_array_, larger_leaf_histogram_array_,
          parent_leaf_histogram_array_, buffers, tree, loc, pc, hst>>

-----------------------------------------------------------------------------
(* Bounds of the model *)

\* Train calls made on one learner
MaxTrains == 2
\* learners constructed, one after the other, on the same inputs
MaxLearners == 2
\* bins per feature (bin ids 0 .. NumBin-1)
NumBin == 3
\* ResetConfig and ResetTrainingData calls made on one learner
MaxResets == 1

-----------------------------------------------------------------------------
(* Numbers.  A leaf output is kept as an integer count of 1/Unit, a gain as  *)
(* an integer count of 1/Unit^2; on the inputs of this model every quotient *)
(* the learner forms is exact in these units, and Quot has no value where   *)
(* one is not.                                                              *)

Unit == 96

\* a / b for b # 0, a multiple of b
Quot(a, b) ==
  IF b > 0 THEN CHOOSE q \in {a \div b} : q * b = a
  ELSE -(CHOOSE q \in {a \div (-b)} : q * (-b) = a)

\* the factor by which a quotient by kEpsilon exceeds one by a count
OverEpsilon == 1000

\* -infinity of a gain; -DBL_MAX / DBL_MAX of an output bound
kMinScore == -2000000000

Max2(a, b) == IF a < b THEN b ELSE a
Min2(a, b) == IF a < b THEN a ELSE b

\* a fraction of the configuration (feature_fraction, histogram_pool_size, ...)
Fraction(n, d) == [n |-> n, d |-> d]

Null == -1

-----------------------------------------------------------------------------
(* Dataset (external collaborator): the accessors the learner calls *)

num_data_ == Len(gradients_)
num_features_ == Len(train_data_.bins)
Examples == 0 .. num_data_ - 1
Features == 0 .. num_features_ - 1
BinIds == 0 .. NumBin - 1

Bin(f, i) == train_data_.bins[f + 1][i + 1]
Grad(i) == gradients_[i + 1]

RealFeatureIndex(inner) == train_data_.real[inner + 1]

InnerFeatureIndex(real) ==
  IF \E f \in Features : RealFeatureIndex(f) = real
  THEN CHOOSE f \in Features : RealFeatureIndex(f) = real
  ELSE -1

\* upper bound of a bin as a feature value; an example in bin b has value 2b
RealThreshold(inner, bin) == 2 * bin + 1
RawValue(f, i) == 2 * Bin(f, i)

\* the bin whose range (2b-1, 2b+1] holds the value
BinThreshold(inner, value) ==
  IF value <= 0 THEN 0
  ELSE IF value \div 2 > NumBin - 1 THEN NumBin - 1
  ELSE value \div 2

\* real indices of the features with at least two bins, ascending
RECURSIVE SortedSeq(_)
SortedSeq(S) ==
  IF S = {} THEN <<>>
  ELSE LET m == CHOOSE x \in S : \A y \in S : x <= y
       IN <<m>> \o SortedSeq(S \ {m})

valid_feature_indices_ == SortedSeq({RealFeatureIndex(f) : f \in Features})

monotone_type(inner) == config_.monotone_constraints[inner + 1]

RECURSIVE SumGradUpTo(_, _)
SumGradUpTo(S, i) ==
  IF i < 0 THEN 0
  ELSE (IF i \in S THEN Grad(i) ELSE 0) + SumGradUpTo(S, i - 1)

SumGrad(S) == SumGradUpTo(S, num_data_ - 1)

\* Dataset::ConstructHistograms for one feature over the examples S
HistOver(S, f) ==
  [b \in BinIds |->
     LET Sb == {i \in S : Bin(f, i) = b}
     IN [g |-> SumGrad(Sb), c |-> Cardinality(Sb)]]

FeatureNumBin(f) == NumBin

-----------------------------------------------------------------------------
(* SplitInfo *)

DefaultSplitInfo ==
  [feature |-> -1, threshold |-> 0, gain |-> kMinScore,
   left_output |-> 0, right_output |-> 0,
   left_count |-> 0, right_count |-> 0,
   left_sum_gradient |-> 0, left_sum_hessian |-> 0,
   right_sum_gradient |-> 0, right_sum_hessian |-> 0,
   monotone_type |-> 0, default_left |-> TRUE]

\* the feature index 2^31 - 1 that operator> puts in place of -1
FeatureOrMax(f) == IF f = -1 THEN 2147483647 ELSE f

\* SplitInfo::operator> : greater gain, or equal gain and smaller feature
SplitInfoGreater(a, b) ==
  IF a.gain # b.gain
  THEN a.gain > b.gain
  ELSE FeatureOrMax(a.feature) < FeatureOrMax(b.feature)

\* ArrayArgs<SplitInfo>::ArgMax over a 0-based array: first maximal element
RECURSIVE ArgMaxFrom(_, _, _, _)
ArgMaxFrom(arr, n, i, arg_max) ==
  IF i >= n THEN arg_max
  ELSE ArgMaxFrom(arr, n, i + 1,
                  IF SplitInfoGreater(arr[i], arr[arg_max]) THEN i ELSE arg_max)

ArgMax(arr, n) == IF n = 0 THEN 0 ELSE ArgMaxFrom(arr, n, 1, 0)

-----------------------------------------------------------------------------
(* FeatureHistogram: gain, leaf output, threshold search *)

\* G^2 / H in 1/Unit^2, where H = 0 stands for H = eps * kEpsilon
GetLeafSplitGain(G, H, eps) ==
  IF H # 0 THEN Quot(G * G * Unit * Unit, H)
  ELSE eps * G * G * Unit * Unit * OverEpsilon

\* -G / H in 1/Unit, before clamping
LeafOutput(G, H) ==
  IF H # 0 THEN Quot(-G * Unit, H) ELSE -G * Unit * OverEpsilon

\* -G / H clamped into the leaf's [min, max]
CalculateSplittedLeafOutput(G, H, ce) ==
  Min2(Max2(LeafOutput(G, H), ce.min), ce.max)

\* -(2 G out + H out^2) in 1/Unit^2
GetLeafSplitGainGivenOutput(G, H, out) ==
  -(2 * G * out * Unit + H * out * out)

NoConstraint == [min |-> kMinScore, max |-> -kMinScore]

RECURSIVE SumBins(_, _, _, _)
\* sum of field fld of hist over the bins lo .. hi
SumBins(hist, fld, lo, hi) ==
  IF lo > hi THEN 0
  ELSE hist[lo][fld] + SumBins(hist, fld, lo + 1, hi)

\* GetSplitGains: 0 when the outputs break the feature's monotone direction
GetSplitGains(GL, HL, GR, HR, lo, ro, mono) ==
  IF (mono > 0 /\ lo > ro) \/ (mono < 0 /\ lo < ro) THEN 0
  ELSE GetLeafSplitGainGivenOutput(GL, HL, lo)
         + GetLeafSplitGainGivenOutput(GR, HR, ro)

\* the SplitInfo of a candidate with the given sums
CandidateInfo(t, GL, CL, GR, CR, ce, mono) ==
  [DefaultSplitInfo EXCEPT
     !.threshold = t,
     !.left_output = CalculateSplittedLeafOutput(GL, CL, ce),
     !.right_output = CalculateSplittedLeafOutput(GR, CR, ce),
     !.left_count = CL, !.right_count = CR,
     !.left_sum_gradient = GL, !.left_sum_hessian = CL,
     !.right_sum_gradient = GR, !.right_sum_hessian = CR,
     !.monotone_type = mono]

\* a candidate with left sums GL, CL: [ok, gain, info]
CandidateWith(t, GL, CL, sum_g, num_data, ce, mono) ==
  IF /\ CL >= config_.min_data_in_leaf
     /\ num_data - CL >= config_.min_data_in_leaf
     /\ CL > 0 /\ num_data - CL > 0
  THEN [ok |-> TRUE,
        gain |-> GetSplitGains(GL, CL, sum_g - GL, num_data - CL,
                   CalculateSplittedLeafOutput(GL, CL, ce),
                   CalculateSplittedLeafOutput(sum_g - GL, num_data - CL, ce),
                   mono),
        info |-> CandidateInfo(t, GL, CL, sum_g - GL, num_data - CL, ce, mono)]
  ELSE [ok |-> FALSE, gain |-> 0, info |-> DefaultSplitInfo]

\* one candidate threshold t of FindBestThreshold: bins <= t go left
Candidate(hist, t, sum_g, sum_h, num_data, ce, mono) ==
  CandidateWith(t, SumBins(hist, "g", 0, t), SumBins(hist, "c", 0, t),
                sum_g, num_data, ce, mono)

\* the running best after one candidate: replaced when strictly better
KeepBest(best, c, shift) ==
  IF c.ok /\ c.gain > shift
  THEN (IF c.gain > best.best_gain
        THEN [best_gain |-> c.gain, info |-> c.info, is_splittable |-> TRUE]
        ELSE [best EXCEPT !.is_splittable = TRUE])
  ELSE best

RECURSIVE ScanThresholds(_, _, _, _, _, _, _, _, _)
\* the candidate thresholds, bins left to right
ScanThresholds(hist, t, sum_g, sum_h, num_data, ce, mono, shift, best) ==
  IF t > NumBin - 2 THEN best
  ELSE ScanThresholds(hist, t + 1, sum_g, sum_h, num_data, ce, mono, shift,
         KeepBest(best, Candidate(hist, t, sum_g, sum_h, num_data, ce, mono),
                  shift))

\* the result of a scan as FindBestThreshold reports it
ReportBest(r, shift) ==
  [split |-> IF r.best_gain = kMinScore THEN DefaultSplitInfo
             ELSE [r.info EXCEPT !.gain = r.best_gain - shift],
   is_splittable |-> r.is_splittable]

\* FeatureHistogram::FindBestThreshold: [split, is_splittable]
FindBestThreshold(hist, sum_g, sum_h, num_data, ce, mono) ==
  ReportBest(ScanThresholds(hist, 0, sum_g, sum_h, num_data, ce, mono,
                            GetLeafSplitGain(sum_g, sum_h, 1),
                            [best_gain |-> kMinScore, info |-> DefaultSplitInfo,
                             is_splittable |-> FALSE]),
             GetLeafSplitGain(sum_g, sum_h, 1))

\* the forced split with right sums GR, CR
GatheredInfo(threshold, GL, HL, CL, GR, CR, current_gain, shift) ==
  IF current_gain <= shift
  THEN DefaultSplitInfo
  ELSE [DefaultSplitInfo EXCEPT
          !.threshold = threshold,
          !.left_output = LeafOutput(GL, HL),
          !.right_output = LeafOutput(GR, CR),
          !.left_count = CL, !.right_count = CR,
          !.left_sum_gradient = GL, !.left_sum_hessian = HL,
          !.right_sum_gradient = GR, !.right_sum_hessian = CR,
          !.gain = current_gain - shift]

\* the sums GatherInfoForThreshold forms: bins > threshold go right
GatherWith(sum_g, sum_h, threshold, num_data, GR, CR) ==
  GatheredInfo(threshold, sum_g - GR, sum_h - CR, num_data - CR, GR, CR,
               GetLeafSplitGain(sum_g - GR, sum_h - CR, -1)
                 + GetLeafSplitGain(GR, CR, 1),
               GetLeafSplitGain(sum_g, sum_h, 1))

\* FeatureHistogram::GatherInfoForThreshold: the split at one given threshold
GatherInfoForThreshold(hist, sum_g, sum_h, threshold, num_data) ==
  GatherWith(sum_g, sum_h, threshold, num_data,
             SumBins(hist, "g", threshold + 1, NumBin - 1),
             SumBins(hist, "c", threshold + 1, NumBin - 1))

\* FeatureHistogram::Subtract, bin by bin
HistSubtract(a, b) ==
  [x \in BinIds |-> [g |-> a[x].g - b[x].g, c |-> a[x].c - b[x].c]]

-----------------------------------------------------------------------------
(* HistogramPool: slots (buffers), leaf id -> slot, least-recently-used order *)

EmptyHistogram == [b \in BinIds |-> [g |-> 0, c |-> 0]]

RECURSIVE SeqRemove(_, _)
SeqRemove(sq, x) ==
  IF sq = <<>> THEN <<>>
  ELSE IF Head(sq) = x THEN SeqRemove(Tail(sq), x)
  ELSE <<Head(sq)>> \o SeqRemove(Tail(sq), x)

\* mark slot s as the most recently used
Touch(lru, s) == Append(SeqRemove(lru, s), s)

\* HistogramPool::DynamicChangeSize on a new pool: cache_size buffers, no binding
NewPool(cache_size, total_size) ==
  [mapper |-> [l \in 0 .. total_size - 1 |-> Null],
   lru |-> [k \in 1 .. cache_size |-> k - 1],
   slots |-> [k \in 0 .. cache_size - 1 |->
                [hist |-> [f \in Features |-> EmptyHistogram],
                 is_splittable |-> [f \in Features |-> TRUE]]]]

\* HistogramPool::DynamicChangeSize on a pool in use: cache_size buffers, the
\* old ones kept, no binding
DynamicChangeSize(pool, cache_size, total_size) ==
  [mapper |-> [l \in 0 .. total_size - 1 |-> Null],
   lru |-> [k \in 1 .. cache_size |-> k - 1],
   slots |-> [k \in 0 .. cache_size - 1 |->
                IF k \in DOMAIN pool.slots THEN pool.slots[k]
                ELSE [hist |-> [f \in Features |-> EmptyHistogram],
                      is_splittable |-> [f \in Features |-> TRUE]]]]

\* HistogramPool::ResetMap: drop all bindings, keep buffers
ResetMap(pool) ==
  [pool EXCEPT !.mapper = [l \in DOMAIN pool.mapper |-> Null],
               !.lru = [k \in 1 .. Len(pool.lru) |-> k - 1]]

\* HistogramPool::Get: [pool, slot, found]
PoolGet(pool, idx) ==
  IF pool.mapper[idx] # Null
  THEN [pool |-> [pool EXCEPT !.lru = Touch(pool.lru, pool.mapper[idx])],
        slot |-> pool.mapper[idx], found |-> TRUE]
  ELSE LET slot == Head(pool.lru)
       IN [pool |-> [pool EXCEPT
                       !.mapper = [l \in DOMAIN pool.mapper |->
                                     IF l = idx THEN slot
                                     ELSE IF pool.mapper[l] = slot THEN Null
                                     ELSE pool.mapper[l]],
                       !.lru = Touch(pool.lru, slot)],
           slot |-> slot, found |-> FALSE]

\* HistogramPool::Move: rebind the buffer of src to dst
PoolMove(pool, src_idx, dst_idx) ==
  IF pool.mapper[src_idx] = Null THEN pool
  ELSE LET slot == pool.mapper[src_idx]
       IN [pool EXCEPT
             !.mapper = [l \in DOMAIN pool.mapper |->
                           IF l = dst_idx THEN slot
                           ELSE IF l = src_idx THEN Null
                           ELSE pool.mapper[l]],
             !.lru = Touch(pool.lru, slot)]

\* size of one histogram entry in bytes
kHistEntrySize == 16

RECURSIVE TotalHistogramSize(_)
TotalHistogramSize(i) ==
  IF i >= num_features_ THEN 0
  ELSE kHistEntrySize * FeatureNumBin(i) + TotalHistogramSize(i + 1)

\* the pool capacity Init computes; histogram_pool_size is a rational of MiB
MaxCacheSize(cfg) ==
  LET raw == IF cfg.histogram_pool_size.n <= 0
             THEN cfg.num_leaves
             ELSE (cfg.histogram_pool_size.n * 1024 * 1024)
                    \div (cfg.histogram_pool_size.d * TotalHistogramSize(0))
      at_least == IF raw < 2 THEN 2 ELSE raw
  IN IF at_least < cfg.num_leaves THEN at_least ELSE cfg.num_leaves

-----------------------------------------------------------------------------
(* Random and feature sampling *)

NextRandom(x) == (5 * x + 3) % 16

RECURSIVE SampleFrom(_, _, _, _, _)
\* Random::Sample(N, K): selection sampling, K ascending indices of 0 .. N-1
SampleFrom(x, N, K, i, ret) ==
  IF i >= N THEN [ret |-> ret, random |-> x]
  ELSE LET y == NextRandom(x)
       IN IF y * (N - i) < 16 * (K - Len(ret))
          THEN SampleFrom(y, N, K, i + 1, Append(ret, i))
          ELSE SampleFrom(y, N, K, i + 1, ret)

Sample(x, N, K) ==
  IF K > N \/ K <= 0 THEN [ret |-> <<>>, random |-> x]
  ELSE IF K = N THEN [ret |-> [k \in 1 .. N |-> k - 1], random |-> x]
  ELSE SampleFrom(x, N, K, 0, <<>>)

\* std::round(size * fraction) for a fraction [n, d] >= 0
RoundTimes(size, fraction) ==
  (2 * size * fraction.n + fraction.d) \div (2 * fraction.d)

IsBelowOne(fraction) == fraction.n < fraction.d

SeqRange(sq) == {sq[k] : k \in 1 .. Len(sq)}

\* GetUsedFeatures without the floor of min(2, valid features) on the count
GetUsedFeatures_NoMinimum(is_tree_level, rnd, ufi) ==
  LET all == [f \in Features |-> TRUE]
      nvalid == Len(valid_feature_indices_)
      min_used_features == 0
      MaskOf(reals) == [f \in Features |-> RealFeatureIndex(f) \in reals]
  IN IF ~IsBelowOne(config_.feature_fraction) /\ is_tree_level
     THEN [ret |-> all, random |-> rnd, used_feature_indices |-> ufi]
     ELSE IF ~IsBelowOne(config_.feature_fraction_bynode) /\ ~is_tree_level
     THEN [ret |-> all, random |-> rnd, used_feature_indices |-> ufi]
     ELSE IF is_tree_level
     THEN LET cnt == Max2(RoundTimes(nvalid, config_.feature_fraction),
                          min_used_features)
              sm == Sample(rnd, nvalid, cnt)
          IN [ret |-> MaskOf({valid_feature_indices_[sm.ret[k] + 1] :
                                k \in 1 .. Len(sm.ret)}),
              random |-> sm.random, used_feature_indices |-> sm.ret]
     ELSE IF Len(ufi) <= 0
     THEN LET cnt == Max2(RoundTimes(nvalid, config_.feature_fraction_bynode),
                          min_used_features)
              sm == Sample(rnd, nvalid, cnt)
          IN [ret |-> MaskOf({valid_feature_indices_[sm.ret[k] + 1] :
                                k \in 1 .. Len(sm.ret)}),
              random |-> sm.random, used_feature_indices |-> ufi]
     ELSE LET cnt == Max2(RoundTimes(Len(ufi), config_.feature_fraction_bynode),
                          min_used_features)
              sm == Sample(rnd, Len(ufi), cnt)
          IN [ret |-> MaskOf({valid_feature_indices_[ufi[sm.ret[k] + 1] + 1] :
                                k \in 1 .. Len(sm.ret)}),
              random |-> sm.random, used_feature_indices |-> ufi]

\* GetUsedFeatures: [ret (mask over inner features), random, used_feature_indices]
GetUsedFeatures(is_tree_level, rnd, ufi) ==
  LET all == [f \in Features |-> TRUE]
      nvalid == Len(valid_feature_indices_)
      min_used_features == Min2(2, nvalid)
      MaskOf(reals) == [f \in Features |-> RealFeatureIndex(f) \in reals]
  IN IF ~IsBelowOne(config_.feature_fraction) /\ is_tree_level
     THEN [ret |-> all, random |-> rnd, used_feature_indices |-> ufi]
     ELSE IF ~IsBelowOne(config_.feature_fraction_bynode) /\ ~is_tree_level
     THEN [ret |-> all, random |-> rnd, used_feature_indices |-> ufi]
     ELSE IF is_tree_level
     THEN LET cnt == Max2(RoundTimes(nvalid, config_.feature_fraction),
                          min_used_features)
              sm == Sample(rnd, nvalid, cnt)
          IN [ret |-> MaskOf({valid_feature_indices_[sm.ret[k] + 1] :
                                k \in 1 .. Len(sm.ret)}),
              random |-> sm.random, used_feature_indices |-> sm.ret]
     ELSE IF Len(ufi) <= 0
     THEN LET cnt == Max2(RoundTimes(nvalid, config_.feature_fraction_bynode),
                          min_used_features)
              sm == Sample(rnd, nvalid, cnt)
          IN [ret |-> MaskOf({valid_feature_indices_[sm.ret[k] + 1] :
                                k \in 1 .. Len(sm.ret)}),
              random |-> sm.random, used_feature_indices |-> ufi]
     ELSE LET cnt == Max2(RoundTimes(Len(ufi), config_.feature_fraction_bynode),
                          min_used_features)
              sm == Sample(rnd, Len(ufi), cnt)
          IN [ret |-> MaskOf({valid_feature_indices_[ufi[sm.ret[k] + 1] + 1] :
                                k \in 1 .. Len(sm.ret)}),
              random |-> sm.random, used_feature_indices |-> ufi]

-----------------------------------------------------------------------------
(* LeafSplits, DataPartition, LeafConstraints, Tree *)

Leaves == 0 .. config_.num_leaves - 1

\* LeafSplits::Init(): no leaf
LeafSplitsNone ==
  [leaf_index |-> -1, num_data_in_leaf |-> 0, sum_gradients |-> 0,
   sum_hessians |-> 0, data_indices |-> {}]

\* LeafSplits::Init(gradients, hessians): leaf 0 over all num_data examples
LeafSplitsAll ==
  [leaf_index |-> 0, num_data_in_leaf |-> num_data_,
   sum_gradients |-> SumGrad(Examples), sum_hessians |-> num_data_,
   data_indices |-> Examples]

\* LeafSplits::Init(leaf, data_partition, gradients, hessians)
LeafSplitsOfPartition(leaf, part) ==
  [leaf_index |-> leaf, num_data_in_leaf |-> Cardinality(part[leaf]),
   sum_gradients |-> SumGrad(part[leaf]),
   sum_hessians |-> Cardinality(part[leaf]),
   data_indices |-> part[leaf]]

\* LeafSplits::Init(leaf, data_partition, sum_gradients, sum_hessians)
LeafSplitsWithSums(leaf, part, sum_g, sum_h) ==
  [leaf_index |-> leaf, num_data_in_leaf |-> Cardinality(part[leaf]),
   sum_gradients |-> sum_g, sum_hessians |-> sum_h,
   data_indices |-> part[leaf]]

\* DataPartition::Init: every used example in leaf 0
PartitionInit ==
  [l \in Leaves |->
     IF l = 0
     THEN (IF used_data_indices_ = {} THEN Examples ELSE used_data_indices_)
     ELSE {}]

\* DataPartition::Split: bins <= threshold stay in leaf, the rest go to right_leaf
PartitionSplit(part, leaf, feature, threshold, right_leaf) ==
  LET left == {i \in part[leaf] : Bin(feature, i) <= threshold}
  IN [l \in DOMAIN part |->
        IF l = leaf THEN left
        ELSE IF l = right_leaf THEN part[leaf] \ left
        ELSE part[l]]

\* DataPartition::ResetByLeafPred
PartitionByLeafPred(leaf_pred, num_leaves) ==
  [l \in 0 .. num_leaves - 1 |->
     {i \in 0 .. Len(leaf_pred) - 1 : leaf_pred[i + 1] = l}]

GetGlobalDataCountInLeaf(leaf_idx) ==
  IF leaf_idx >= 0 THEN Cardinality(data_partition_[leaf_idx]) ELSE 0

\* the bounds of the two children, mid = (left_output + right_output) / 2
ChildConstraints(e, mono, mid) ==
  IF mono < 0
  THEN [leaf |-> [e EXCEPT !.min = Max2(e.min, mid)],
        new_leaf |-> [e EXCEPT !.max = Min2(e.max, mid)]]
  ELSE IF mono > 0
  THEN [leaf |-> [e EXCEPT !.max = Min2(e.max, mid)],
        new_leaf |-> [e EXCEPT !.min = Max2(e.min, mid)]]
  ELSE [leaf |-> e, new_leaf |-> e]

\* LeafConstraints::UpdateConstraints
UpdateConstraints(entries, is_numerical_split, leaf, new_leaf, mono, right_output, left_output) ==
  [l \in DOMAIN entries |->
     IF l = leaf
     THEN ChildConstraints(entries[leaf], IF is_numerical_split THEN mono ELSE 0,
                           Quot(left_output + right_output, 2)).leaf
     ELSE IF l = new_leaf
     THEN ChildConstraints(entries[leaf], IF is_numerical_split THEN mono ELSE 0,
                           Quot(left_output + right_output, 2)).new_leaf
     ELSE entries[l]]

\* Tree(max_leaves): the root only
NewTree(max_leaves) ==
  [num_leaves_ |-> 1,
   leaf_depth |-> [l \in 0 .. max_leaves - 1 |-> 0],
   leaf_value |-> [l \in 0 .. max_leaves - 1 |-> 0],
   shrinkage |-> 1,
   nodes |-> <<>>]

\* Tree::Split: leaf keeps the left child, the new leaf id is the right child
TreeSplit(t, leaf, inner, real, threshold_bin, threshold_double, left_value, right_value, left_cnt, right_cnt) ==
  LET new_leaf == t.num_leaves_
  IN [t EXCEPT
        !.num_leaves_ = new_leaf + 1,
        !.leaf_depth = [l \in DOMAIN t.leaf_depth |->
                          IF l = leaf \/ l = new_leaf
                          THEN t.leaf_depth[leaf] + 1 ELSE t.leaf_depth[l]],
        !.leaf_value = [l \in DOMAIN t.leaf_value |->
                          IF l = leaf THEN left_value
                          ELSE IF l = new_leaf THEN right_value
                          ELSE t.leaf_value[l]],
        !.nodes = Append(t.nodes,
                    [leaf |-> leaf, right_leaf |-> new_leaf,
                     split_feature_inner |-> inner, split_feature |-> real,
                     threshold_in_bin |-> threshold_bin,
                     threshold |-> threshold_double,
                     left_output |-> left_value, right_output |-> right_value,
                     left_count |-> left_cnt, right_count |-> right_cnt,
                     depth |-> t.leaf_depth[leaf]])]

RECURSIVE RouteFrom(_, _, _, _)
\* the leaf the tree's decisions send example i to, on its feature values
RouteFrom(t, i, k, cur) ==
  IF k > Len(t.nodes) THEN cur
  ELSE LET nd == t.nodes[k]
       IN RouteFrom(t, i, k + 1,
            IF cur = nd.leaf
               /\ RawValue(InnerFeatureIndex(nd.split_feature), i) > nd.threshold
            THEN nd.right_leaf ELSE cur)

PredictLeaf(t, i) == RouteFrom(t, i, 1, 0)

-----------------------------------------------------------------------------
(* BeforeFindBestSplit and FindBestSplits *)

\* the two gates of BeforeFindBestSplit
DepthGate(left_leaf) ==
  config_.max_depth > 0 /\ tree.leaf_depth[left_leaf] >= config_.max_depth

DataGate(left_leaf, right_leaf) ==
  /\ GetGlobalDataCountInLeaf(right_leaf) < config_.min_data_in_leaf * 2
  /\ GetGlobalDataCountInLeaf(left_leaf) < config_.min_data_in_leaf * 2

\* best_split_per_leaf_ with the gain of both leaves set to kMinScore
GateLeaves(left_leaf, right_leaf) ==
  [l \in DOMAIN best_split_per_leaf_ |->
     IF l = left_leaf \/ (right_leaf >= 0 /\ l = right_leaf)
     THEN [best_split_per_leaf_[l] EXCEPT !.gain = kMinScore]
     ELSE best_split_per_leaf_[l]]

\* the pool calls of BeforeFindBestSplit without the Move to the right leaf
AssignHistograms_NoMove(left_leaf, right_leaf) ==
  IF right_leaf < 0
  THEN LET g == PoolGet(histogram_pool_, left_leaf)
       IN [pool |-> g.pool, smaller |-> g.slot, larger |-> Null, parent |-> Null]
  ELSE IF GetGlobalDataCountInLeaf(left_leaf) < GetGlobalDataCountInLeaf(right_leaf)
  THEN LET g1 == PoolGet(histogram_pool_, left_leaf)
           g2 == PoolGet(g1.pool, left_leaf)
       IN [pool |-> g2.pool, smaller |-> g2.slot, larger |-> g1.slot,
           parent |-> IF g1.found THEN g1.slot ELSE Null]
  ELSE LET g1 == PoolGet(histogram_pool_, left_leaf)
           g2 == PoolGet(g1.pool, right_leaf)
       IN [pool |-> g2.pool, smaller |-> g2.slot, larger |-> g1.slot,
           parent |-> IF g1.found THEN g1.slot ELSE Null]

\* BeforeFindBestSplit asking the pool for the left leaf twice when the right
\* child is the smaller one
AssignHistograms_LeftTwice(left_leaf, right_leaf) ==
  IF right_leaf < 0
  THEN LET g == PoolGet(histogram_pool_, left_leaf)
       IN [pool |-> g.pool, smaller |-> g.slot, larger |-> Null, parent |-> Null]
  ELSE IF GetGlobalDataCountInLeaf(left_leaf) < GetGlobalDataCountInLeaf(right_leaf)
  THEN LET g1 == PoolGet(histogram_pool_, left_leaf)
           mv == PoolMove(g1.pool, left_leaf, right_leaf)
           g2 == PoolGet(mv, left_leaf)
       IN [pool |-> g2.pool, smaller |-> g2.slot, larger |-> g1.slot,
           parent |-> IF g1.found THEN g1.slot ELSE Null]
  ELSE LET g1 == PoolGet(histogram_pool_, left_leaf)
           g2 == PoolGet(g1.pool, left_leaf)
       IN [pool |-> g2.pool, smaller |-> g2.slot, larger |-> g1.slot,
           parent |-> IF g1.found THEN g1.slot ELSE Null]

\* the pool calls of BeforeFindBestSplit: [pool, smaller, larger, parent]
AssignHistograms(left_leaf, right_leaf) ==
  IF right_leaf < 0
  THEN LET g == PoolGet(histogram_pool_, left_leaf)
       IN [pool |-> g.pool, smaller |-> g.slot, larger |-> Null, parent |-> Null]
  ELSE IF GetGlobalDataCountInLeaf(left_leaf) < GetGlobalDataCountInLeaf(right_leaf)
  THEN LET g1 == PoolGet(histogram_pool_, left_leaf)
           mv == PoolMove(g1.pool, left_leaf, right_leaf)
           g2 == PoolGet(mv, left_leaf)
       IN [pool |-> g2.pool, smaller |-> g2.slot, larger |-> g1.slot,
           parent |-> IF g1.found THEN g1.slot ELSE Null]
  ELSE LET g1 == PoolGet(histogram_pool_, left_leaf)
           g2 == PoolGet(g1.pool, right_leaf)
       IN [pool |-> g2.pool, smaller |-> g2.slot, larger |-> g1.slot,
           parent |-> IF g1.found THEN g1.slot ELSE Null]

\* BeforeFindBestSplit: what it returns and what it leaves in the learner
BeforeFindBestSplit(left_leaf, right_leaf) ==
  IF DepthGate(left_leaf) \/ DataGate(left_leaf, right_leaf)
  THEN [ret |-> FALSE,
        best |-> GateLeaves(left_leaf, right_leaf),
        pool |-> histogram_pool_,
        smaller |-> smaller_leaf_histogram_array_,
        larger |-> larger_leaf_histogram_array_,
        parent |-> parent_leaf_histogram_array_]
  ELSE LET a == AssignHistograms(left_leaf, right_leaf)
       IN [ret |-> TRUE, best |-> best_split_per_leaf_, pool |-> a.pool,
           smaller |-> a.smaller, larger |-> a.larger, parent |-> a.parent]

\* FindBestSplits: the features to evaluate
FeatureMask ==
  [f \in Features |->
     /\ is_feature_used_[f]
     /\ ~(/\ parent_leaf_histogram_array_ # Null
          /\ ~histogram_pool_.slots[parent_leaf_histogram_array_].is_splittable[f])]

UseSubtract == parent_leaf_histogram_array_ # Null

HasLarger == larger_leaf_splits_.leaf_index >= 0

\* what FindBestThreshold reports for a feature it is not run on
NotSearched == [split |-> DefaultSplitInfo, is_splittable |-> FALSE]

\* histogram_array_[f].FindBestThreshold(...) of ComputeBestSplitForFeature,
\* for every feature f of one leaf on which the search runs
Thresholds(hist, leaf_splits, searched) ==
  [f \in Features |->
     IF searched[f]
     THEN FindBestThreshold(hist[f], leaf_splits.sum_gradients,
                            leaf_splits.sum_hessians,
                            leaf_splits.num_data_in_leaf,
                            constraints_[leaf_splits.leaf_index],
                            monotone_type(f))
     ELSE NotSearched]

\* ComputeBestSplitForFeature with >= on the gain alone in place of operator>
ComputeBestSplitForFeature_LastWins(found, feature_index, real_fidx, is_feature_used, best_split) ==
  IF ~is_feature_used THEN best_split
  ELSE IF found[feature_index].split.gain >= best_split.gain
  THEN [found[feature_index].split EXCEPT !.feature = real_fidx]
  ELSE best_split

\* ComputeBestSplitForFeature: the caller's best after this feature; found is
\* what FindBestThreshold returns on the leaf's histograms
ComputeBestSplitForFeature(found, feature_index, real_fidx, is_feature_used, best_split) ==
  IF ~is_feature_used THEN best_split
  ELSE IF SplitInfoGreater([found[feature_index].split EXCEPT !.feature = real_fidx],
                           best_split)
  THEN [found[feature_index].split EXCEPT !.feature = real_fidx]
  ELSE best_split

\* the divisions of the feature loop that schedule(static) may make: one
\* contiguous chunk per thread, of approximately equal size (the exact sizes
\* are left to the OpenMP runtime); cuts[t] .. cuts[t+1]-1 is thread t's chunk
Chunkings ==
  LET T == config_.num_threads
      lo == num_features_ \div T
      hi == (num_features_ + T - 1) \div T
  IN {c \in [0 .. T -> 0 .. num_features_] :
        /\ c[0] = 0 /\ c[T] = num_features_
        /\ \A t \in 0 .. T - 1 : c[t + 1] - c[t] \in {lo, hi}}

RECURSIVE ThreadBest(_, _, _, _, _, _, _)
\* smaller_best[tid] / larger_best[tid] after the loop: features f .. of
\* thread tid's chunk, in ascending order
ThreadBest(cuts, tid, f, is_feature_used, node_used, found, best) ==
  IF f >= cuts[tid + 1] THEN best
  ELSE ThreadBest(cuts, tid, f + 1, is_feature_used, node_used, found,
         IF is_feature_used[f]
         THEN ComputeBestSplitForFeature(found, f, RealFeatureIndex(f),
                                         node_used[f], best)
         ELSE best)

\* ReduceBest without the reduction: the best of the last thread alone
ReduceBest_LastThread(cuts, is_feature_used, node_used, found) ==
  ThreadBest(cuts, config_.num_threads - 1, cuts[config_.num_threads - 1],
             is_feature_used, node_used, found, DefaultSplitInfo)

\* ReduceBest without the reduction: the best of thread 0 alone
ReduceBest_FirstThread(cuts, is_feature_used, node_used, found) ==
  ThreadBest(cuts, 0, cuts[0], is_feature_used, node_used, found,
             DefaultSplitInfo)

\* the ArgMax over the per-thread bests of one leaf
ReduceBest(cuts, is_feature_used, node_used, found) ==
  LET per_thread == [t \in 0 .. config_.num_threads - 1 |->
                       ThreadBest(cuts, t, cuts[t], is_feature_used, node_used,
                                  found, DefaultSplitInfo)]
  IN per_thread[ArgMax(per_thread, config_.num_threads)]

\* the node-level masks of the two leaves and the generator after drawing them
NodeUsedFeatures ==
  LET u1 == GetUsedFeatures(FALSE, random_, used_feature_indices_)
      u2 == GetUsedFeatures(FALSE, u1.random, used_feature_indices_)
  IN IF IsBelowOne(config_.feature_fraction_bynode)
     THEN [smaller |-> u1.ret, larger |-> u2.ret, random |-> u2.random]
     ELSE [smaller |-> [f \in Features |-> TRUE],
           larger |-> [f \in Features |-> TRUE], random |-> random_]

\* ConstructHistograms: the contents of the smaller and the larger buffer
ConstructHistograms(is_feature_used, use_subtract) ==
  [smaller |->
     [f \in Features |->
        IF is_feature_used[f]
        THEN HistOver(smaller_leaf_splits_.data_indices, f)
        ELSE histogram_pool_.slots[smaller_leaf_histogram_array_].hist[f]],
   larger |->
     [f \in Features |->
        IF larger_leaf_histogram_array_ = Null THEN EmptyHistogram
        ELSE IF is_feature_used[f] /\ ~use_subtract
        THEN HistOver(larger_leaf_splits_.data_indices, f)
        ELSE histogram_pool_.slots[larger_leaf_histogram_array_].hist[f]]]

\* the Subtract calls with the operands exchanged: smaller minus larger
SubtractHistograms_Reversed(is_feature_used, use_subtract, built) ==
  [built EXCEPT !.larger =
     [f \in Features |->
        IF is_feature_used[f] /\ use_subtract /\ HasLarger
        THEN HistSubtract(built.smaller[f], built.larger[f])
        ELSE built.larger[f]]]

\* the Subtract calls of FindBestSplitsFromHistograms
SubtractHistograms(is_feature_used, use_subtract, built) ==
  [built EXCEPT !.larger =
     [f \in Features |->
        IF is_feature_used[f] /\ use_subtract /\ HasLarger
        THEN HistSubtract(built.larger[f], built.smaller[f])
        ELSE built.larger[f]]]

\* the features FindBestThreshold runs on for one leaf
Searched(is_feature_used, node_used, has_leaf) ==
  [f \in Features |-> is_feature_used[f] /\ node_used[f] /\ has_leaf]

\* the pool buffers after FindBestSplits
StoreHistograms(is_feature_used, hists, found_smaller, found_larger, searched_smaller, searched_larger) ==
  [k \in DOMAIN histogram_pool_.slots |->
     IF k = smaller_leaf_histogram_array_
     THEN [hist |-> hists.smaller,
           is_splittable |-> [f \in Features |->
              IF searched_smaller[f] THEN found_smaller[f].is_splittable
              ELSE IF is_feature_used_[f] /\ ~is_feature_used[f] THEN FALSE
              ELSE histogram_pool_.slots[k].is_splittable[f]]]
     ELSE IF k = larger_leaf_histogram_array_
     THEN [hist |-> hists.larger,
           is_splittable |-> [f \in Features |->
              IF searched_larger[f] THEN found_larger[f].is_splittable
              ELSE histogram_pool_.slots[k].is_splittable[f]]]
     ELSE histogram_pool_.slots[k]]

\* best_split_per_leaf_ after the two reductions
StoreBest(best_smaller, best_larger) ==
  [l \in DOMAIN best_split_per_leaf_ |->
     IF HasLarger /\ l = larger_leaf_splits_.leaf_index THEN best_larger
     ELSE IF l = smaller_leaf_splits_.leaf_index THEN best_smaller
     ELSE best_split_per_leaf_[l]]

\* the search of FindBestSplitsFromHistograms on given histograms and masks
SearchLeaves(cuts, is_feature_used, node, hists, searched_smaller, searched_larger, found_smaller, found_larger) ==
  [pool |-> [histogram_pool_ EXCEPT !.slots =
               StoreHistograms(is_feature_used, hists, found_smaller,
                               found_larger, searched_smaller, searched_larger)],
   best |-> StoreBest(
              ReduceBest(cuts, is_feature_used, node.smaller, found_smaller),
              ReduceBest(cuts, is_feature_used, node.larger, found_larger)),
   random |-> node.random,
   mask |-> is_feature_used,
   smaller_used |-> {f \in Features : searched_smaller[f]},
   larger_used |-> {f \in Features : searched_larger[f]}]

\* FindBestSplitsFromHistograms once the masks and histograms are known
SearchWith(cuts, is_feature_used, node, hists, searched_smaller, searched_larger) ==
  SearchLeaves(cuts, is_feature_used, node, hists, searched_smaller,
               searched_larger,
               Thresholds(hists.smaller, smaller_leaf_splits_, searched_smaller),
               Thresholds(hists.larger, larger_leaf_splits_, searched_larger))

\* FindBestSplitsFromHistograms on the buffers ConstructHistograms filled
FindBestSplitsFromHistograms(cuts, is_feature_used, use_subtract, built, node) ==
  SearchWith(cuts, is_feature_used, node,
             SubtractHistograms(is_feature_used, use_subtract, built),
             Searched(is_feature_used, node.smaller, TRUE),
             Searched(is_feature_used, node.larger, HasLarger))

\* FindBestSplits under one division of the feature loop:
\* [pool, best, random, mask, smaller_used, larger_used]
FindBestSplits(cuts) ==
  FindBestSplitsFromHistograms(cuts, FeatureMask, UseSubtract,
                               ConstructHistograms(FeatureMask, UseSubtract),
                               NodeUsedFeatures)

-----------------------------------------------------------------------------
(* Inputs: datasets, gradients, configurations, forced-split templates *)

\* a template node; "left" and "right" are <<>> (absent) or <<node>>
JsonNode(feature, threshold, left, right) ==
  [feature |-> feature, threshold |-> threshold, left |-> left, right |-> right]

JsonNull == <<>>
Template1 == <<JsonNode(0, 1, JsonNull, JsonNull)>>
Template2 == <<JsonNode(0, 1, <<JsonNode(1, 1, JsonNull, JsonNull)>>, JsonNull)>>
Template3 ==
  <<JsonNode(0, 1, <<JsonNode(1, 1, JsonNull, JsonNull)>>,
                   <<JsonNode(1, 1, JsonNull, JsonNull)>>)>>
Template4 ==
  <<JsonNode(0, 1, <<JsonNode(1, 1, <<JsonNode(2, 1, JsonNull, JsonNull)>>,
                                 JsonNull)>>, JsonNull)>>
\* a chain of three nodes whose root sends three of the four examples left
Template5 ==
  <<JsonNode(0, 3, <<JsonNode(1, 1, <<JsonNode(2, 1, JsonNull, JsonNull)>>,
                                 JsonNull)>>, JsonNull)>>
\* a root whose right child carries a forced split
Template6 == <<JsonNode(0, 1, JsonNull, <<JsonNode(1, 1, JsonNull, JsonNull)>>)>>
\* a root with a right child and a left child that has no "threshold"
Template7 ==
  <<JsonNode(0, 1, <<[feature |-> 1, left |-> JsonNull, right |-> JsonNull]>>,
                   <<JsonNode(1, 1, JsonNull, JsonNull)>>)>>

\* the bins of the four examples in a feature column
ColumnA == <<0, 0, 1, 1>>
ColumnB == <<0, 1, 0, 1>>
ColumnC == <<0, 1, 1, 2>>
ColumnD == <<0, 1, 0, 0>>

Dataset(c1, c2, c3, g) == [bins |-> <<c1, c2, c3>>, gradients |-> g]

\* three feature columns and the gradients of the four examples
Datasets ==
  {Dataset(ColumnA, ColumnB, ColumnC, <<-1, -1, 1, 1>>),
   Dataset(ColumnA, ColumnA, ColumnA, <<-1, -1, 1, 1>>),
   Dataset(ColumnC, ColumnB, ColumnA, <<1, -1, -1, 1>>),
   Dataset(ColumnC, ColumnA, ColumnB, <<-1, -1, 1, 1>>),
   Dataset(ColumnB, ColumnA, ColumnC, <<-2, 1, 0, 1>>),
   Dataset(ColumnA, ColumnB, ColumnB, <<1, -1, -1, 1>>),
   Dataset(ColumnB, ColumnC, ColumnA, <<-1, -1, 1, 1>>),
   Dataset(ColumnC, ColumnC, ColumnA, <<-2, 1, 0, 1>>),
   Dataset(ColumnC, ColumnA, ColumnB, <<-2, 1, 0, 1>>),
   Dataset(ColumnA, ColumnD, ColumnA, <<-1, -1, 1, 1>>)}

DefaultInput ==
  [num_leaves |-> 3, max_depth |-> -1, min_data_in_leaf |-> 1,
   feature_fraction |-> Fraction(1, 1),
   feature_fraction_bynode |-> Fraction(1, 1),
   histogram_pool_size |-> Fraction(-1, 1),
   monotone |-> 0, num_threads |-> 1, refit_decay_rate |-> Fraction(0, 1),
   template |-> JsonNull, bag |-> {}, real |-> <<0, 1, 2>>]

\* the settings an input may deviate from DefaultInput in
Deviations ==
  {<<"num_leaves", 2>>, <<"num_leaves", 4>>, <<"max_depth", 1>>,
   <<"min_data_in_leaf", 2>>, <<"min_data_in_leaf", 3>>,
   <<"feature_fraction", Fraction(1, 2)>>,
   <<"feature_fraction_bynode", Fraction(1, 2)>>,
   <<"histogram_pool_size", Fraction(3, 8192)>>,
   <<"monotone", 1>>, <<"monotone", -1>>, <<"num_threads", 2>>,
   <<"template", Template1>>, <<"template", Template2>>,
   <<"template", Template3>>, <<"template", Template4>>,
   <<"bag", {0, 1, 2}>>, <<"real", <<1, 0, 2>> >>}

Deviate(inp, dv) == [inp EXCEPT ![dv[1]] = dv[2]]

\* a forced-split template that is deeper than max_depth allows
DeepTemplate ==
  [DefaultInput EXCEPT !.num_leaves = 4, !.max_depth = 2,
                       !.template = Template5]

\* a forced split below the root whose leaves are too small to be searched
SmallLeaves ==
  [DefaultInput EXCEPT !.min_data_in_leaf = 2, !.template = Template6]

\* a template with a child that is not a forced split
PartialTemplate == [DefaultInput EXCEPT !.num_leaves = 4, !.template = Template7]

\* a refit that keeps half of the old leaf outputs
Decaying == [DefaultInput EXCEPT !.refit_decay_rate = Fraction(1, 2)]

Settings ==
  {DefaultInput, DeepTemplate, SmallLeaves, PartialTemplate, Decaying}
    \cup {Deviate(DefaultInput, d1) : d1 \in Deviations}
    \cup {Deviate(Deviate(DefaultInput, d1), d2) : d1 \in Deviations, d2 \in Deviations}

ConfigOf(inp) ==
  [num_leaves |-> inp.num_leaves, max_depth |-> inp.max_depth,
   min_data_in_leaf |-> inp.min_data_in_leaf,
   feature_fraction |-> inp.feature_fraction,
   feature_fraction_bynode |-> inp.feature_fraction_bynode,
   feature_fraction_seed |-> 2,
   histogram_pool_size |-> inp.histogram_pool_size,
   monotone_constraints |-> <<inp.monotone, 0, 0>>,
   num_threads |-> inp.num_threads,
   refit_decay_rate |-> inp.refit_decay_rate]

-----------------------------------------------------------------------------
(* The learner after its constructor and Init *)

\* the LeafSplits, the DataPartition and the ordered gradients and hessians,
\* each allocated or resized for n examples
SizedFor(n) ==
  [leaf_splits |-> n, data_partition |-> n, ordered_gradients |-> n]

\* SerialTreeLearner(config) then Init(train_data): the members they set.
\* Init ends in GetMultiValBin(train_data, true), which draws a tree-level
\* feature sample through GetUsedFeatures(true) and only passes it on
NewLearner ==
  LET u == GetUsedFeatures(TRUE, config_.feature_fraction_seed, <<>>) IN
  [random |-> u.random,
   used_feature_indices |-> u.used_feature_indices,
   is_feature_used |-> [f \in Features |-> FALSE],
   data_partition |-> [l \in Leaves |-> {}],
   best_split_per_leaf |-> [l \in Leaves |-> DefaultSplitInfo],
   constraints |-> [l \in Leaves |-> NoConstraint],
   pool |-> NewPool(MaxCacheSize(config_), config_.num_leaves),
   buffers |-> SizedFor(Len(train_data_.bins[1]))]

NoLocals ==
  [left_leaf |-> 0, right_leaf |-> -1, cur_depth |-> 1, init_splits |-> 0,
   aborted_last_force_split |-> FALSE, split |-> 0,
   q |-> <<>>, left |-> JsonNull, right |-> JsonNull, left_smaller |-> TRUE,
   forceSplitMap |-> [l \in {} |-> DefaultSplitInfo], result_count |-> 0,
   refit |-> <<>>]

NoHistory ==
  [learners |-> 1, trains |-> 0, gated |-> {}, split_after_gate |-> FALSE,
   forced |-> {}, evaluated |-> [l \in {} |-> {}], mask |-> {},
   aborted |-> FALSE, resets |-> 0, renew |-> <<>>, refitted |-> FALSE,
   node_used |-> [smaller |-> {}, larger |-> {}], first |-> <<>>, last |-> "Init"]

Init ==
  /\ \E inp \in Settings, data \in Datasets :
       /\ config_ = ConfigOf(inp)
       /\ train_data_ = [bins |-> data.bins, real |-> inp.real]
       /\ gradients_ = data.gradients
       /\ forced_split_json = inp.template
       /\ used_data_indices_ = inp.bag
  /\ random_ = NewLearner.random
  /\ used_feature_indices_ = NewLearner.used_feature_indices
  /\ is_feature_used_ = NewLearner.is_feature_used
  /\ data_partition_ = NewLearner.data_partition
  /\ best_split_per_leaf_ = NewLearner.best_split_per_leaf
  /\ constraints_ = NewLearner.constraints
  /\ smaller_leaf_splits_ = LeafSplitsNone
  /\ larger_leaf_splits_ = LeafSplitsNone
  /\ histogram_pool_ = NewLearner.pool
  /\ buffers = NewLearner.buffers
  /\ smaller_leaf_histogram_array_ = Null
  /\ larger_leaf_histogram_array_ = Null
  /\ parent_leaf_histogram_array_ = Null
  /\ tree = NewTree(config_.num_leaves)
  /\ loc = NoLocals
  /\ pc = "idle"
  /\ hst = NoHistory

-----------------------------------------------------------------------------
(* Train: BeforeTrain, ForceSplits, the free-growth loop *)

JsonHasKeys(json) ==
  json # JsonNull /\ {"feature", "threshold"} \subseteq DOMAIN json[1]

\* Json::number_value() of a key: 0 when the object has no such key
JsonNumber(node, key) == IF key \in DOMAIN node THEN node[key] ELSE 0

\* every child of the dequeued node is pushed, whatever keys it has
ChildEntries_AnyChild(node, left_leaf, right_leaf) ==
  (IF node.left # JsonNull
   THEN <<[json |-> node.left[1], leaf |-> left_leaf]>> ELSE <<>>)
  \o (IF node.right # JsonNull
      THEN <<[json |-> node.right[1], leaf |-> right_leaf]>> ELSE <<>>)

\* the entries ForceSplits pushes for the children of a dequeued node
ChildEntries(node, left_leaf, right_leaf) ==
  (IF JsonHasKeys(node.left)
   THEN <<[json |-> node.left[1], leaf |-> left_leaf]>> ELSE <<>>)
  \o (IF JsonHasKeys(node.right)
      THEN <<[json |-> node.right[1], leaf |-> right_leaf]>> ELSE <<>>)

\* forceSplitMap[leaf] = split; then erase(leaf) when split.gain < 0
MapPut(map, leaf, split) ==
  IF split.gain < 0
  THEN [l \in DOMAIN map \ {leaf} |-> map[l]]
  ELSE [l \in DOMAIN map \cup {leaf} |-> IF l = leaf THEN split ELSE map[l]]

\* the forced split ForceSplits scores for one child of the last dequeued node
ForcedSplitInfo(json, use_smaller) ==
  LET node == json[1]
      inner == InnerFeatureIndex(node.feature)
      threshold == BinThreshold(inner, JsonNumber(node, "threshold"))
      arr == IF use_smaller THEN smaller_leaf_histogram_array_
             ELSE larger_leaf_histogram_array_
      ls == IF use_smaller THEN smaller_leaf_splits_ ELSE larger_leaf_splits_
  IN [GatherInfoForThreshold(histogram_pool_.slots[arr].hist[inner],
                             ls.sum_gradients, ls.sum_hessians, threshold,
                             ls.num_data_in_leaf)
        EXCEPT !.feature = node.feature]

\* a forced split would read through a histogram array pointer that is nullptr
ForcedNullDeref ==
  \/ /\ loc.left # JsonNull
     /\ (IF loc.left_smaller THEN smaller_leaf_histogram_array_
         ELSE larger_leaf_histogram_array_) = Null
  \/ /\ loc.right # JsonNull
     /\ (IF loc.left_smaller THEN larger_leaf_histogram_array_
         ELSE smaller_leaf_histogram_array_) = Null

\* the left child always named the smaller one
LeafSplitsAfter_LeftSmaller(part, info, left_leaf, right_leaf) ==
  [smaller |-> LeafSplitsWithSums(left_leaf, part, info.left_sum_gradient,
                                  info.left_sum_hessian),
   larger |-> LeafSplitsWithSums(right_leaf, part, info.right_sum_gradient,
                                 info.right_sum_hessian),
   left_smaller |-> TRUE]

\* the smaller / larger LeafSplits after a split of leaf into (leaf, right_leaf)
LeafSplitsAfter(part, info, left_leaf, right_leaf) ==
  LET l == LeafSplitsWithSums(left_leaf, part, info.left_sum_gradient,
                              info.left_sum_hessian)
      r == LeafSplitsWithSums(right_leaf, part, info.right_sum_gradient,
                              info.right_sum_hessian)
  IN IF info.left_count < info.right_count
     THEN [smaller |-> l, larger |-> r, left_smaller |-> TRUE]
     ELSE [smaller |-> r, larger |-> l, left_smaller |-> FALSE]

\* Split handing the split leaf's own id to DataPartition::Split as the new leaf
SplitLeaf_SameLeaf(leaf, info) ==
  LET inner == InnerFeatureIndex(info.feature)
      next_leaf_id == tree.num_leaves_
      part == PartitionSplit(data_partition_, leaf, inner, info.threshold, leaf)
      left_count == Cardinality(part[leaf])
      right_count == Cardinality(part[next_leaf_id])
  IN [partition |-> part,
      info |-> [info EXCEPT !.left_count = left_count,
                            !.right_count = right_count],
      right_leaf |-> next_leaf_id,
      tree |-> TreeSplit(tree, leaf, inner, info.feature, info.threshold,
                         RealThreshold(inner, info.threshold),
                         info.left_output, info.right_output,
                         left_count, right_count)]

\* Split handing the bin threshold to the tree where the real threshold belongs
SplitLeaf_BinAsThreshold(leaf, info) ==
  LET inner == InnerFeatureIndex(info.feature)
      next_leaf_id == tree.num_leaves_
      part == PartitionSplit(data_partition_, leaf, inner, info.threshold,
                             next_leaf_id)
      left_count == Cardinality(part[leaf])
      right_count == Cardinality(part[next_leaf_id])
  IN [partition |-> part,
      info |-> [info EXCEPT !.left_count = left_count,
                            !.right_count = right_count],
      right_leaf |-> next_leaf_id,
      tree |-> TreeSplit(tree, leaf, inner, info.feature, info.threshold,
                         info.threshold,
                         info.left_output, info.right_output,
                         left_count, right_count)]

\* data_partition_->Split, the two leaf_count reads and tree->Split
SplitLeaf(leaf, info) ==
  LET inner == InnerFeatureIndex(info.feature)
      next_leaf_id == tree.num_leaves_
      part == PartitionSplit(data_partition_, leaf, inner, info.threshold,
                             next_leaf_id)
      left_count == Cardinality(part[leaf])
      right_count == IF next_leaf_id \in DOMAIN part
                     THEN Cardinality(part[next_leaf_id]) ELSE 0
      counted == [info EXCEPT !.left_count = left_count,
                              !.right_count = right_count]
  IN [partition |-> part, info |-> counted, right_leaf |-> next_leaf_id,
      tree |-> TreeSplit(tree, leaf, inner, info.feature, info.threshold,
                         RealThreshold(inner, info.threshold),
                         info.left_output, info.right_output,
                         left_count, right_count)]

Observe(step, gated, split_leaf, forced) ==
  [hst EXCEPT
     !.last = step,
     !.gated = @ \cup gated,
     !.split_after_gate = @ \/ (split_leaf \in hst.gated),
     !.forced = @ \cup forced]

\* BeforeTrain sums up the root over all examples also under bagging
RootLeafSplits_AlwaysAll(part) == LeafSplitsAll

\* BeforeTrain, "Sumup for root": over all data, or over the bagged part
RootLeafSplits(part) ==
  IF Cardinality(part[0]) = num_data_ THEN LeafSplitsAll
  ELSE LeafSplitsOfPartition(0, part)

\* Train up to the first loop: BeforeTrain, the new Tree, ForceSplits' prologue
TrainBegin ==
  /\ pc \in {"idle", "done"}
  /\ hst.trains < MaxTrains
  /\ LET u == GetUsedFeatures(TRUE, random_, used_feature_indices_)
         sampled == IsBelowOne(config_.feature_fraction)
         part == PartitionInit
     IN /\ histogram_pool_' = ResetMap(histogram_pool_)
        /\ is_feature_used_' =
             IF sampled THEN u.ret ELSE [f \in Features |-> TRUE]
        /\ random_' = IF sampled THEN u.random ELSE random_
        /\ used_feature_indices_' =
             IF sampled THEN u.used_feature_indices ELSE used_feature_indices_
        /\ data_partition_' = part
        /\ constraints_' = [l \in DOMAIN constraints_ |-> NoConstraint]
        /\ best_split_per_leaf_' = [l \in Leaves |-> DefaultSplitInfo]
        /\ smaller_leaf_splits_' = RootLeafSplits(part)
        /\ larger_leaf_splits_' = LeafSplitsNone
  /\ tree' = NewTree(config_.num_leaves)
  /\ loc' = IF forced_split_json # JsonNull
            THEN [NoLocals EXCEPT
                    !.left = forced_split_json,
                    !.q = <<[json |-> forced_split_json[1], leaf |-> 0]>>]
            ELSE NoLocals
  /\ pc' = IF forced_split_json # JsonNull THEN "force_before" ELSE "loop"
  /\ hst' = [hst EXCEPT !.trains = @ + 1, !.gated = {}, !.forced = {},
                        !.split_after_gate = FALSE,
                        !.evaluated = [l \in {} |-> {}],
                        !.aborted = FALSE, !.refitted = FALSE,
                        !.last = "TrainBegin"]
  /\ UNCHANGED <<train_data_, gradients_, config_, forced_split_json,
                 used_data_indices_, buffers, smaller_leaf_histogram_array_,
                 larger_leaf_histogram_array_, parent_leaf_histogram_array_>>

\* the assignments BeforeFindBestSplit makes, and where its caller goes next
DoBeforeFindBestSplit(step, on_true, on_false) ==
  LET r == BeforeFindBestSplit(loc.left_leaf, loc.right_leaf)
  IN /\ best_split_per_leaf_' = r.best
     /\ histogram_pool_' = r.pool
     /\ smaller_leaf_histogram_array_' = r.smaller
     /\ larger_leaf_histogram_array_' = r.larger
     /\ parent_leaf_histogram_array_' = r.parent
     /\ pc' = IF r.ret THEN on_true ELSE on_false
     /\ hst' = Observe(step,
                       IF r.ret THEN {}
                       ELSE {loc.left_leaf, loc.right_leaf} \ {-1}, -1, {})

\* ComputeBestSplitForFeature reads constraints_->Get(leaf) for a leaf id the
\* entries the constructor allocated do not reach
ConstraintsOutOfRange ==
  \E f \in Features :
    \/ /\ smaller_leaf_splits_.leaf_index \notin DOMAIN constraints_
       /\ Searched(FeatureMask, NodeUsedFeatures.smaller, TRUE)[f]
    \/ /\ larger_leaf_splits_.leaf_index \notin DOMAIN constraints_
       /\ Searched(FeatureMask, NodeUsedFeatures.larger, HasLarger)[f]

\* the assignments FindBestSplits makes
DoFindBestSplits(step, next) ==
  IF ConstraintsOutOfRange
  THEN /\ pc' = "ub"
       /\ hst' = [hst EXCEPT !.last = step]
       /\ UNCHANGED <<histogram_pool_, best_split_per_leaf_, random_>>
  ELSE
  \E cuts \in Chunkings :
    LET r == FindBestSplits(cuts)
    IN /\ histogram_pool_' = r.pool
       /\ best_split_per_leaf_' = r.best
       /\ random_' = r.random
       /\ pc' = next
       /\ hst' = [hst EXCEPT
            !.last = step,
            !.mask = {f \in Features : r.mask[f]},
            !.node_used =
               [smaller |-> {f \in Features : NodeUsedFeatures.smaller[f]},
                larger |-> {f \in Features : NodeUsedFeatures.larger[f]}],
            !.evaluated =
               [l \in DOMAIN @ \cup ({smaller_leaf_splits_.leaf_index,
                                       larger_leaf_splits_.leaf_index} \ {-1}) |->
                  IF l = smaller_leaf_splits_.leaf_index THEN r.smaller_used
                  ELSE IF l = larger_leaf_splits_.leaf_index THEN r.larger_used
                  ELSE @[l]]]

\* ForceSplits, top of the while loop: BeforeFindBestSplit on the current pair
ForceBefore ==
  /\ pc = "force_before"
  /\ DoBeforeFindBestSplit("ForceBefore", "force_find", "force_apply")
  /\ UNCHANGED <<inputs, sampling, both_leaf_splits, data_partition_, constraints_,
                 tree, loc>>

\* ForceSplits: FindBestSplits when BeforeFindBestSplit returned true
ForceFind ==
  /\ pc = "force_find"
  /\ DoFindBestSplits("ForceFind", "force_apply")
  /\ UNCHANGED <<inputs, used_feature_indices_, is_feature_used_, both_leaf_splits,
                 data_partition_, constraints_, histogram_arrays, tree, loc>>

\* Train restarts its loop from zero whatever ForceSplits returned
ReturnToTrain_FromZero(l) == [l EXCEPT !.init_splits = 0, !.split = 0]

\* ForceSplits returns result_count to Train, which enters its loop
ReturnToTrain(l) == [l EXCEPT !.init_splits = l.result_count,
                              !.split = l.result_count]

\* ForceSplits, rest of the loop body: score the children of the last node,
\* dequeue, then abort or apply the forced split and enqueue its children
ForceApply ==
  /\ pc = "force_apply"
  /\ IF ForcedNullDeref
     THEN /\ pc' = "ub"
          /\ hst' = Observe("ForceApply", {}, -1, {})
          /\ UNCHANGED <<data_partition_, tree, both_leaf_splits, loc>>
     ELSE
       LET m1 == IF loc.left # JsonNull
                 THEN MapPut(loc.forceSplitMap, loc.left_leaf,
                             ForcedSplitInfo(loc.left, loc.left_smaller))
                 ELSE loc.forceSplitMap
           m2 == IF loc.right # JsonNull
                 THEN MapPut(m1, loc.right_leaf,
                             ForcedSplitInfo(loc.right, ~loc.left_smaller))
                 ELSE m1
           pair == Head(loc.q)
           current_leaf == pair.leaf
       IN IF current_leaf \notin DOMAIN m2
          THEN /\ loc' = ReturnToTrain([loc EXCEPT
                           !.forceSplitMap = m2, !.q = Tail(loc.q),
                           !.aborted_last_force_split = TRUE])
               /\ pc' = "loop"
               /\ hst' = [Observe("ForceApply", {}, -1, {})
                            EXCEPT !.aborted = TRUE]
               /\ UNCHANGED <<data_partition_, tree, both_leaf_splits>>
          ELSE
            LET r == SplitLeaf(current_leaf, m2[current_leaf])
                ls == LeafSplitsAfter(r.partition, r.info, current_leaf,
                                      r.right_leaf)
                q2 == Tail(loc.q) \o ChildEntries(pair.json, current_leaf,
                                                  r.right_leaf)
                l2 == [loc EXCEPT
                         !.forceSplitMap = m2, !.q = q2,
                         !.left_leaf = current_leaf,
                         !.right_leaf = r.right_leaf,
                         !.left_smaller = ls.left_smaller,
                         !.left = pair.json.left, !.right = pair.json.right,
                         !.result_count = @ + 1,
                         !.cur_depth =
                            IF current_leaf \in DOMAIN r.tree.leaf_depth
                            THEN Max2(@, r.tree.leaf_depth[current_leaf])
                            ELSE @]
                overrun == tree.num_leaves_ >= config_.num_leaves
            IN IF overrun
               THEN \* the split writes past the end of the per-leaf arrays
                    \E crash \in BOOLEAN :
                      /\ pc' = "ub"
                      /\ hst' = Observe("ForceApply", {}, -1, {})
                      /\ tree' = IF crash THEN tree ELSE r.tree
                      /\ data_partition_' =
                           IF crash THEN data_partition_ ELSE r.partition
                      /\ UNCHANGED <<both_leaf_splits, loc>>
               ELSE /\ data_partition_' = r.partition
                    /\ tree' = r.tree
                    /\ smaller_leaf_splits_' = ls.smaller
                    /\ larger_leaf_splits_' = ls.larger
                    /\ loc' = IF q2 = <<>> THEN ReturnToTrain(l2) ELSE l2
                    /\ pc' = IF q2 = <<>> THEN "loop" ELSE "force_before"
                    /\ hst' = Observe("ForceApply", {}, current_leaf,
                                      {Len(r.tree.nodes)})
  /\ UNCHANGED <<inputs, sampling, best_split_per_leaf_, constraints_,
                 histogram_pool_, histogram_arrays>>

\* Train returns the tree
Finish(step) ==
  [hst EXCEPT !.last = step,
              !.first = IF hst.learners = 1
                        THEN Append(@, [nodes |-> tree.nodes,
                                        leaf_value |-> tree.leaf_value])
                        ELSE @]

\* Train, top of the for loop: the loop test, then BeforeFindBestSplit or the
\* skip after an aborted forced split
TrainLoopBefore ==
  /\ pc = "loop"
  /\ IF loc.split >= config_.num_leaves - 1
     THEN /\ pc' = "done"
          /\ hst' = Finish("TrainLoopBefore")
          /\ UNCHANGED <<best_split_per_leaf_, histogram_pool_,
                         histogram_arrays, loc>>
     ELSE IF ~loc.aborted_last_force_split
     THEN /\ DoBeforeFindBestSplit("TrainLoopBefore", "find", "select")
          /\ UNCHANGED loc
     ELSE /\ loc' = [loc EXCEPT !.aborted_last_force_split = FALSE]
          /\ pc' = "select"
          /\ hst' = Observe("TrainLoopBefore", {}, -1, {})
          /\ UNCHANGED <<best_split_per_leaf_, histogram_pool_,
                         histogram_arrays>>
  /\ UNCHANGED <<inputs, sampling, both_leaf_splits, data_partition_, constraints_,
                 tree>>

\* Train: FindBestSplits when BeforeFindBestSplit returned true
TrainFind ==
  /\ pc = "find"
  /\ DoFindBestSplits("TrainFind", "select")
  /\ UNCHANGED <<inputs, used_feature_indices_, is_feature_used_, both_leaf_splits,
                 data_partition_, constraints_, histogram_arrays, tree, loc>>

\* Train, rest of the loop body: ArgMax, the gain test, Split
\* the left leaf of the last split taken for the leaf of greatest gain
best_leaf_LastLeft == loc.left_leaf

\* the leaf with max split gain
best_leaf ==
  ArgMax(best_split_per_leaf_, Cardinality(DOMAIN best_split_per_leaf_))

TrainSelectSplit ==
  /\ pc = "select"
  /\ LET best_leaf_SplitInfo == best_split_per_leaf_[best_leaf]
     IN IF best_leaf_SplitInfo.gain <= 0
        THEN /\ pc' = "done"
             /\ hst' = Finish("TrainSelectSplit")
             /\ UNCHANGED <<data_partition_, tree, best_split_per_leaf_,
                            both_leaf_splits, constraints_, loc>>
        ELSE
          LET r == SplitLeaf(best_leaf, best_leaf_SplitInfo)
              ls == LeafSplitsAfter(r.partition, r.info, best_leaf,
                                    r.right_leaf)
              check_gt == IF r.info.left_count < r.info.right_count
                          THEN r.info.left_count > 0
                          ELSE r.info.right_count > 0
              l2 == [loc EXCEPT !.left_leaf = best_leaf,
                                !.right_leaf = r.right_leaf]
          IN /\ data_partition_' = r.partition
             /\ tree' = r.tree
             /\ best_split_per_leaf_' =
                  [best_split_per_leaf_ EXCEPT ![best_leaf] = r.info]
             /\ hst' = Observe("TrainSelectSplit", {}, best_leaf, {})
             /\ IF check_gt
                THEN /\ smaller_leaf_splits_' = ls.smaller
                     /\ larger_leaf_splits_' = ls.larger
                     /\ constraints_' =
                          IF r.right_leaf \in DOMAIN constraints_
                          THEN UpdateConstraints(constraints_, TRUE, best_leaf,
                                 r.right_leaf, r.info.monotone_type,
                                 r.info.right_output, r.info.left_output)
                          ELSE constraints_
                     /\ loc' = [l2 EXCEPT
                                  !.split = @ + 1,
                                  !.cur_depth =
                                     Max2(@, r.tree.leaf_depth[best_leaf])]
                     \* UpdateConstraints writes past the end of the entries
                     /\ pc' = IF r.right_leaf \in DOMAIN constraints_
                              THEN "loop" ELSE "ub"
                ELSE /\ loc' = l2
                     /\ pc' = "fatal"
                     /\ UNCHANGED <<both_leaf_splits, constraints_>>
  /\ UNCHANGED <<inputs, sampling, histogram_pool_, histogram_arrays>>

-----------------------------------------------------------------------------
(* FitByExistingTree with leaf predictions; a second learner *)

\* the leaf assignments a caller passes: the tree's own routing, or all in leaf 0
LeafPreds ==
  {[i \in 1 .. num_data_ |-> PredictLeaf(tree, i - 1)],
   [i \in 1 .. num_data_ |-> 0]}

\* the blend with the weights of the old and the new output exchanged
Blend_Exchanged(decay, old_leaf_output, new_leaf_output) ==
  Quot((decay.d - decay.n) * old_leaf_output + decay.n * new_leaf_output,
       decay.d)

\* decay * old + (1 - decay) * new
Blend(decay, old_leaf_output, new_leaf_output) ==
  Quot(decay.n * old_leaf_output + (decay.d - decay.n) * new_leaf_output,
       decay.d)

\* FitByExistingTree(old_tree, gradients, hessians) on the current partition
RefitTree(old_tree, part) ==
  [old_tree EXCEPT !.leaf_value =
     [l \in DOMAIN old_tree.leaf_value |->
        IF l >= old_tree.num_leaves_ THEN old_tree.leaf_value[l]
        ELSE Blend(config_.refit_decay_rate, old_tree.leaf_value[l],
                   CalculateSplittedLeafOutput(SumGrad(part[l]),
                                               Cardinality(part[l]),
                                               NoConstraint)
                     * old_tree.shrinkage)]]

\* FitByExistingTree(old_tree, leaf_pred, gradients, hessians) on the last tree
FitByExistingTree ==
  /\ pc = "done"
  /\ loc.refit = <<>>
  /\ \E leaf_pred \in LeafPreds :
       LET part == PartitionByLeafPred(leaf_pred, tree.num_leaves_)
       IN /\ data_partition_' = part
          /\ loc' = [loc EXCEPT !.refit = <<RefitTree(tree, part)>>]
  /\ hst' = [hst EXCEPT !.last = "FitByExistingTree", !.refitted = TRUE]
  /\ UNCHANGED <<inputs, sampling, best_split_per_leaf_, constraints_,
                 both_leaf_splits, histogram_pool_, histogram_arrays, tree, pc>>

\* ObjectiveFunction (external collaborator): the residual residual_getter
\* reports for a global example, and RenewTreeOutput as the mean residual of
\* the examples of a leaf; index_mapper holds the leaf's local indices and
\* bag_mapper, when not null, maps a local index to the global one
Residual(j) == -Unit * (IF j < num_data_ THEN Grad(j) ELSE 1)

RECURSIVE SumResidualUpTo(_, _)
SumResidualUpTo(S, j) ==
  IF j < 0 THEN 0
  ELSE (IF j \in S THEN Residual(j) ELSE 0) + SumResidualUpTo(S, j - 1)

ObjRenewTreeOutput(output, index_mapper, bag_mapper, cnt_leaf_data) ==
  LET global == {IF bag_mapper = <<>> THEN i ELSE bag_mapper[i + 1] :
                   i \in index_mapper}
  IN Quot(SumResidualUpTo(global, num_data_), cnt_leaf_data)

\* the arguments of a RenewTreeOutput call: no objective, an objective that
\* does not renew, one that does on the whole data, on a bag of all but the
\* first global example, with a bag of the wrong size, and on two machines
RenewCalls ==
  LET call(o, t, b, m) == [obj |-> o, total_num_data |-> t, bag_indices |-> b,
                           num_machines |-> m]
  IN {call("null", num_data_, <<>>, 1),
      call("keep", num_data_, <<>>, 1),
      call("renew", num_data_, <<>>, 1),
      call("renew", num_data_ + 1, [i \in 1 .. num_data_ |-> i], 1),
      call("renew", num_data_ + 1, [i \in 1 .. num_data_ - 1 |-> i], 1),
      call("renew", num_data_, <<>>, 2)}

\* the other machine of a run on two machines, after its own loop: it holds
\* examples of leaf 0 and of every leaf this machine holds none of
OtherMachine(t) ==
  [l \in 0 .. t.num_leaves_ - 1 |->
     IF l = 0 \/ data_partition_[l] = {}
     THEN [output |-> 2 * Unit, n_nozeroworker |-> 1]
     ELSE [output |-> 0, n_nozeroworker |-> 0]]

\* Network::GlobalSum over the machines
GlobalSum(mine, other, num_machines) ==
  IF num_machines > 1 THEN mine + other ELSE mine

\* the CHECKs of RenewTreeOutput that end the process
RenewIsFatal(t, call) ==
  \/ t.num_leaves_ > Cardinality(DOMAIN data_partition_)
  \/ /\ call.total_num_data # num_data_
     /\ Len(call.bag_indices) # num_data_
  \/ /\ call.num_machines <= 1
     /\ \E l \in 0 .. t.num_leaves_ - 1 : data_partition_[l] = {}

\* the loop over the leaves: outputs and n_nozeroworker_perleaf
RenewLoop(t, call) ==
  [l \in 0 .. t.num_leaves_ - 1 |->
     IF Cardinality(data_partition_[l]) > 0
     THEN [output |-> ObjRenewTreeOutput(
                        t.leaf_value[l], data_partition_[l],
                        IF call.total_num_data # num_data_
                        THEN call.bag_indices ELSE <<>>,
                        Cardinality(data_partition_[l])),
           n_nozeroworker |-> 1]
     ELSE [output |-> 0, n_nozeroworker |-> 0]]

\* RenewTreeOutput dividing the summed outputs by the number of machines
RenewedTree_PerMachine(t, call) ==
  LET mine == RenewLoop(t, call)
      other == OtherMachine(t)
  IN [t EXCEPT !.leaf_value =
        [l \in DOMAIN t.leaf_value |->
           IF l >= t.num_leaves_ THEN t.leaf_value[l]
           ELSE IF call.num_machines > 1
           THEN Quot(GlobalSum(mine[l].output, other[l].output,
                               call.num_machines), call.num_machines)
           ELSE mine[l].output]]

\* the tree after RenewTreeOutput(tree, obj, ...)
RenewedTree(t, call) ==
  LET mine == RenewLoop(t, call)
      other == OtherMachine(t)
  IN [t EXCEPT !.leaf_value =
        [l \in DOMAIN t.leaf_value |->
           IF l >= t.num_leaves_ THEN t.leaf_value[l]
           ELSE IF call.num_machines > 1
           THEN Quot(GlobalSum(mine[l].output, other[l].output,
                               call.num_machines),
                     GlobalSum(mine[l].n_nozeroworker, other[l].n_nozeroworker,
                               call.num_machines))
           ELSE mine[l].output]]

\* RenewTreeOutput(tree, obj, residual_getter, total_num_data, bag_indices,
\* bag_cnt) on the last tree
RenewTreeOutput ==
  /\ pc = "done"
  /\ hst.trains = 1 /\ hst.learners = 1 /\ hst.resets = 0
  /\ \E call \in RenewCalls :
       /\ hst' = [hst EXCEPT !.last = "RenewTreeOutput", !.renew = <<call>>]
       /\ IF call.obj # "renew"
          THEN tree' = tree /\ pc' = "renewed"
          ELSE IF RenewIsFatal(tree, call)
          THEN tree' = tree /\ pc' = "fatal"
          ELSE tree' = RenewedTree(tree, call) /\ pc' = "renewed"
  /\ UNCHANGED <<inputs, sampling, best_split_per_leaf_, constraints_,
                 both_leaf_splits, data_partition_, histogram_pool_,
                 histogram_arrays, loc>>

\* the configurations a caller hands to ResetConfig: the current one with
\* more leaves (fewer, from 4), another histogram_pool_size, or feature
\* sampling per tree turned off
NewConfigs ==
  ({[config_ EXCEPT !.num_leaves = IF @ = 4 THEN 2 ELSE 4]}
     \cup {[config_ EXCEPT !.histogram_pool_size = p] :
              p \in {Fraction(-1, 1), Fraction(3, 8192)}}
     \cup {[config_ EXCEPT !.feature_fraction = Fraction(1, 1)]})
    \ {config_}

\* best_split_per_leaf_.resize(n)
ResizeBestSplits(n) ==
  [l \in 0 .. n - 1 |->
     IF l \in DOMAIN best_split_per_leaf_ THEN best_split_per_leaf_[l]
     ELSE DefaultSplitInfo]

\* DataPartition::ResetLeaves(n)
ResetLeaves(n) ==
  [l \in 0 .. n - 1 |->
     IF l \in DOMAIN data_partition_ THEN data_partition_[l] ELSE {}]

\* ResetConfig(config) between two Train calls
ResetConfig ==
  /\ pc = "done"
  /\ hst.trains < MaxTrains
  /\ hst.resets < MaxResets
  /\ \E config \in NewConfigs :
       /\ config_' = config
       /\ IF config_.num_leaves # config.num_leaves
          THEN /\ histogram_pool_' =
                    DynamicChangeSize(histogram_pool_, MaxCacheSize(config),
                                      config.num_leaves)
               /\ best_split_per_leaf_' = ResizeBestSplits(config.num_leaves)
               /\ data_partition_' = ResetLeaves(config.num_leaves)
          ELSE UNCHANGED <<histogram_pool_, best_split_per_leaf_,
                           data_partition_>>
  /\ pc' = "idle"
  /\ loc' = NoLocals
  /\ hst' = [hst EXCEPT !.resets = @ + 1, !.last = "ResetConfig"]
  /\ UNCHANGED <<train_data_, gradients_, forced_split_json,
                 used_data_indices_, buffers, sampling, both_leaf_splits,
                 constraints_, histogram_arrays, tree>>

\* a dataset of two features and three examples
OtherShape == [bins |-> <<<<0, 1, 1>>, <<0, 0, 1>>>>, real |-> <<0, 1>>]

\* the datasets a caller hands to ResetTrainingData: the same examples binned
\* otherwise, or a dataset of another shape
NewDatasets ==
  {[train_data_ EXCEPT !.bins = <<ColumnB, ColumnC, ColumnA>>], OtherShape}

\* ResetTrainingData accepting a dataset of any number of features
CheckNumFeatures_Skipped(train_data) == TRUE

\* CHECK_EQ(num_features_, train_data_->num_features())
CheckNumFeatures(train_data) == num_features_ = Len(train_data.bins)

\* ResetTrainingData(train_data) between two Train calls
ResetTrainingData ==
  /\ pc = "done"
  /\ hst.trains < MaxTrains
  /\ hst.resets < MaxResets
  /\ \E train_data \in NewDatasets :
       /\ train_data_' = train_data
       /\ IF CheckNumFeatures(train_data)
          THEN /\ buffers' = SizedFor(Len(train_data.bins[1]))
               /\ pc' = "idle"
          ELSE /\ pc' = "fatal"
               /\ UNCHANGED buffers
  /\ loc' = NoLocals
  /\ hst' = [hst EXCEPT !.resets = @ + 1, !.last = "ResetTrainingData"]
  /\ UNCHANGED <<gradients_, config_, forced_split_json, used_data_indices_,
                 sampling, data_partition_, best_split_per_leaf_,
                 constraints_, both_leaf_splits, histogram_pool_,
                 histogram_arrays, tree>>

\* after its last Train the caller drops the learner and constructs and
\* initialises a new one with the same configuration and dataset
Construct ==
  /\ pc = "done"
  /\ hst.trains = MaxTrains
  /\ hst.learners < MaxLearners
  /\ hst.resets = 0
  /\ random_' = NewLearner.random
  /\ used_feature_indices_' = NewLearner.used_feature_indices
  /\ is_feature_used_' = NewLearner.is_feature_used
  /\ data_partition_' = NewLearner.data_partition
  /\ best_split_per_leaf_' = NewLearner.best_split_per_leaf
  /\ constraints_' = NewLearner.constraints
  /\ smaller_leaf_splits_' = LeafSplitsNone
  /\ larger_leaf_splits_' = LeafSplitsNone
  /\ histogram_pool_' = NewLearner.pool
  /\ smaller_leaf_histogram_array_' = Null
  /\ larger_leaf_histogram_array_' = Null
  /\ parent_leaf_histogram_array_' = Null
  /\ tree' = NewTree(config_.num_leaves)
  /\ loc' = NoLocals
  /\ pc' = "idle"
  /\ hst' = [NoHistory EXCEPT !.learners = hst.learners + 1,
                              !.first = hst.first, !.last = "Construct"]
  /\ UNCHANGED inputs

Next ==
  \/ TrainBegin
  \/ ForceBefore
  \/ ForceFind
  \/ ForceApply
  \/ TrainLoopBefore
  \/ TrainFind
  \/ TrainSelectSplit
  \/ FitByExistingTree
  \/ RenewTreeOutput
  \/ ResetConfig
  \/ ResetTrainingData
  \/ Construct

\* the steps of Train calls, one call after the other
TrainCalls ==
  \/ TrainBegin
  \/ ForceBefore
  \/ ForceFind
  \/ ForceApply
  \/ TrainLoopBefore
  \/ TrainFind
  \/ TrainSelectSplit

\* the call in progress moves on to its next position
Advance ==
  /\ pc \in {"force_before", "force_find", "force_apply", "loop", "find",
             "select"}
  /\ pc' \in {"force_before", "force_find", "force_apply", "loop", "find",
              "select", "done", "ub", "fatal"} \ {pc}

\* Train calls on a learner after Init; a call that is in progress is not
\* suspended for ever
FairSpec == Init /\ [][TrainCalls]_vars /\ WF_pc(Advance)

Spec == Init /\ [][Next]_vars

-----------------------------------------------------------------------------
(* Properties *)

Nodes == 1 .. Len(tree.nodes)
ActiveLeaves == 0 .. tree.num_leaves_ - 1
Training == pc \in {"force_before", "force_find", "force_apply", "loop",
                    "find", "select"}
\* a split was applied by this step; its node is the last one of the tree
SplitApplied == Len(tree'.nodes) = Len(tree.nodes) + 1
NewNode == tree'.nodes[Len(tree'.nodes)]

\* C1: during and after Train, with or without a forced-split template, the
\* tree has at most num_leaves leaves and at most num_leaves - 1 splits were
\* applied, forced and free together.
C1_AtMostNumLeaves ==
  /\ tree.num_leaves_ <= config_.num_leaves
  /\ Len(tree.nodes) <= config_.num_leaves - 1

\* the greatest recorded gain over the active leaves
MaxActiveGain ==
  LET best == CHOOSE l \in ActiveLeaves :
                \A m \in ActiveLeaves :
                  best_split_per_leaf_[m].gain <= best_split_per_leaf_[l].gain
  IN best_split_per_leaf_[best].gain

\* C2: in every free-growth iteration the leaf split is an active leaf whose
\* recorded gain is the maximum over the active leaves and is > 0; when that
\* maximum is <= 0 Train stops without a split, and the returned tree is not
\* split any further.
C2_SplitsBestLeafOrStops ==
  [][/\ pc = "select" =>
          IF MaxActiveGain <= 0
          THEN pc' = "done" /\ tree' = tree
          ELSE /\ SplitApplied
               /\ NewNode.leaf \in ActiveLeaves
               /\ best_split_per_leaf_[NewNode.leaf].gain = MaxActiveGain
     /\ (pc = "done" /\ pc' = "done") => tree' = tree]_vars

\* Train stopped before the tree was full, after at least one free split
C2_Witness ==
  /\ pc = "done" /\ hst.last = "TrainSelectSplit"
  /\ forced_split_json = JsonNull
  /\ tree.num_leaves_ \in 2 .. config_.num_leaves - 1

\* the leaf the free-growth loop is about to split
BestLeaf == ArgMax(best_split_per_leaf_, config_.num_leaves)

\* the gain over the parent of candidate (f, t) of a leaf, from a histogram
\* built from scratch over the leaf's examples; kMinScore when not admissible
CandidateGainWith(c, shift) ==
  IF c.ok /\ c.gain > shift THEN c.gain - shift ELSE kMinScore

CandidateGainOver(data, f, t, ce) ==
  CandidateGainWith(
    Candidate(HistOver(data, f), t, SumGrad(data), Cardinality(data),
              Cardinality(data), ce, monotone_type(f)),
    GetLeafSplitGain(SumGrad(data), Cardinality(data), 1))

CandidateGain(leaf, f, t) ==
  CandidateGainOver(data_partition_[leaf], f, t, constraints_[leaf])

\* the free-growth loop is about to apply a split whose candidates are
\* known, in a tree no forced split was applied to
FreeSplitPending ==
  /\ pc = "select" /\ hst.forced = {}
  /\ best_split_per_leaf_[BestLeaf].gain > 0
  /\ BestLeaf \in DOMAIN hst.evaluated

\* the chosen split is an evaluated candidate of its leaf
ChosenIsCandidate ==
  LET info == best_split_per_leaf_[BestLeaf]
  IN \E f \in hst.evaluated[BestLeaf] :
       /\ RealFeatureIndex(f) = info.feature
       /\ info.threshold \in 0 .. NumBin - 2
       /\ CandidateGain(BestLeaf, f, info.threshold) = info.gain

UsedExamples ==
  IF used_data_indices_ = {} THEN Examples ELSE used_data_indices_

RECURSIVE SumCounts(_, _)
\* the sum of the leaf counts of a partition over the leaves 0 .. hi
SumCounts(part, hi) ==
  IF hi < 0 THEN 0
  ELSE (IF hi \in DOMAIN part THEN Cardinality(part[hi]) ELSE 0)
         + SumCounts(part, hi - 1)

\* the leaf runs of the partition are disjoint and make up exactly the set S
PartitionOf(S) ==
  /\ \A l, m \in DOMAIN data_partition_ :
       l # m => data_partition_[l] \cap data_partition_[m] = {}
  /\ UNION {data_partition_[l] : l \in DOMAIN data_partition_} = S
  /\ SumCounts(data_partition_, config_.num_leaves - 1) = Cardinality(S)

\* BeforeTrain has run on this learner, no reset has come after it and the
\* program is in a defined state
Partitioned == hst.trains >= 1 /\ pc \notin {"ub", "idle", "fatal"}

\* the split just applied moved examples of the split leaf only
OnlySplitLeafRedistributed ==
  /\ \A l \in DOMAIN data_partition_ \ {NewNode.leaf, NewNode.right_leaf} :
       data_partition_'[l] = data_partition_[l]
  /\ data_partition_'[NewNode.leaf] \cup data_partition_'[NewNode.right_leaf]
       = data_partition_[NewNode.leaf]
  /\ data_partition_'[NewNode.leaf] \cap data_partition_'[NewNode.right_leaf]
       = {}

\* C4: after BeforeTrain and after every split of Split or ForceSplits the
\* leaf runs are pairwise disjoint and make up exactly the examples in use
\* (all of [0, N) without bagging, the bagged subset with it), after
\* ResetByLeafPred all of [0, N); a split redistributes the examples of the
\* split leaf between it and the new leaf and changes no other leaf's run.
C4_PartitionOfUsedExamples ==
  [][/\ Partitioned' =>
          (PartitionOf(IF loc.refit # <<>> THEN Examples ELSE UsedExamples))'
     /\ (SplitApplied /\ pc' # "ub") => OnlySplitLeafRedistributed]_vars

\* a bagged Train has applied a split
C4_Witness ==
  /\ pc = "loop" /\ Len(tree.nodes) >= 1
  /\ used_data_indices_ # {} /\ used_data_indices_ # Examples

\* C4 as stated: the runs cover [0, N) and the counts sum to N
C4_PartitionOfAllExamples ==
  [][/\ Partitioned' => (PartitionOf(Examples))'
     /\ (SplitApplied /\ pc' # "ub") => OnlySplitLeafRedistributed]_vars

\* the number of examples of S the tree's own decisions route to leaf l
RoutedCount(S, l) == Cardinality({i \in S : PredictLeaf(tree, i) = l})

\* Train has returned the tree and the partition is the one it grew it on
Returned == pc = "done" /\ loc.refit = <<>>

\* the counts the tree records for the split just applied are the partition's
RecordedCountsMatch ==
  /\ NewNode.left_count = Cardinality(data_partition_'[NewNode.leaf])
  /\ NewNode.right_count = Cardinality(data_partition_'[NewNode.right_leaf])

\* C5: for every tree returned by Train and every active leaf, the partition's
\* count of the leaf is the number of examples in use (all, or the bagged
\* subset) that the tree's split decisions route to it; the counts recorded at
\* a split are the partition's counts of the two children right after it.
C5_CountsMatchRoutingOfUsed ==
  [][/\ Returned' =>
          (\A l \in ActiveLeaves :
             Cardinality(data_partition_[l]) = RoutedCount(UsedExamples, l))'
     /\ (SplitApplied /\ pc' # "ub") => RecordedCountsMatch]_vars

\* a bagged Train has returned a tree with at least one split
C5_Witness ==
  /\ Returned /\ Len(tree.nodes) >= 1
  /\ used_data_indices_ # {} /\ used_data_indices_ # Examples

\* C5 as stated: the count is the number of training examples routed to l
C5_CountsMatchRoutingOfAll ==
  [][/\ Returned' =>
          (\A l \in ActiveLeaves :
             Cardinality(data_partition_[l]) = RoutedCount(Examples, l))'
     /\ (SplitApplied /\ pc' # "ub") => RecordedCountsMatch]_vars

\* FindBestSplits is about to run with the parent's histogram retained
SubtractChosen == pc \in {"find", "force_find"} /\ UseSubtract

\* for feature f: the larger child's histogram after the search is the retained
\* parent's minus the smaller child's, it is the histogram of the larger
\* child's examples, and the parent's was the histogram of the split leaf's
SubtractIsExact(f) ==
  /\ histogram_pool_'.slots[larger_leaf_histogram_array_].hist[f]
       = HistSubtract(
           histogram_pool_.slots[parent_leaf_histogram_array_].hist[f],
           histogram_pool_'.slots[smaller_leaf_histogram_array_].hist[f])
  /\ histogram_pool_'.slots[larger_leaf_histogram_array_].hist[f]
       = HistOver(data_partition_[larger_leaf_splits_.leaf_index], f)
  /\ histogram_pool_.slots[parent_leaf_histogram_array_].hist[f]
       = HistOver(data_partition_[smaller_leaf_splits_.leaf_index]
                    \cup data_partition_[larger_leaf_splits_.leaf_index], f)

PoolCapacity == Len(histogram_pool_.lru)

\* the leaf ids bound to a buffer of the pool
BoundLeaves ==
  {l \in DOMAIN histogram_pool_.mapper : histogram_pool_.mapper[l] # Null}

\* the leaf ids bound to buffer k
BoundTo(k) == {l \in BoundLeaves : histogram_pool_.mapper[l] = k}

\* BeforeFindBestSplit has just passed a pair of children and found the
\* parent's buffer in the pool
ParentRetained ==
  /\ pc \in {"find", "force_find"}
  /\ loc.right_leaf >= 0
  /\ parent_leaf_histogram_array_ # Null

\* C7: the pool never binds more than its C buffers' worth of leaf ids and
\* never binds two leaf ids to one buffer; after a split followed by
\* BeforeFindBestSplit the parent's buffer, when it was not evicted, is bound
\* to exactly one leaf id, that of the larger child.
C7_PoolBindings ==
  /\ Cardinality(BoundLeaves) <= PoolCapacity
  /\ Cardinality(DOMAIN histogram_pool_.slots) = PoolCapacity
  /\ \A l, m \in BoundLeaves :
       histogram_pool_.mapper[l] = histogram_pool_.mapper[m] => l = m
  /\ ParentRetained =>
       /\ parent_leaf_histogram_array_ = larger_leaf_histogram_array_
       /\ BoundTo(parent_leaf_histogram_array_)
            = {larger_leaf_splits_.leaf_index}

\* the parent's buffer was renamed to the right child in a pool of two buffers
C7_Witness ==
  /\ ParentRetained
  /\ PoolCapacity = 2
  /\ larger_leaf_splits_.leaf_index = loc.right_leaf
  /\ Cardinality(BoundLeaves) = 2

\* what the first learner returned from its k-th Train
FirstRun(k) == hst.first[k]

\* a later learner, built on the same inputs and like the first one never
\* reset, has returned from a Train
SecondRunReturned ==
  /\ pc = "done" /\ hst.learners >= 2 /\ hst.resets = 0
  /\ hst.trains \in 1 .. Len(hst.first)

MonotoneAt(k) ==
  /\ monotone_type(tree.nodes[k].split_feature_inner) > 0
       => tree.nodes[k].left_output <= tree.nodes[k].right_output
  /\ monotone_type(tree.nodes[k].split_feature_inner) < 0
       => tree.nodes[k].left_output >= tree.nodes[k].right_output

\* C9: in a tree returned by Train, every internal node that splits on a
\* monotone-increasing (decreasing) feature, whether it came from free growth
\* or from the forced-split template, has left output <= (>=) right output.
C9_MonotoneOutputs ==
  pc = "done" => \A k \in Nodes : MonotoneAt(k)

\* an active leaf lies deeper than max_depth
DeeperThanMaxDepth ==
  /\ config_.max_depth > 0
  /\ \E l \in ActiveLeaves : tree.leaf_depth[l] > config_.max_depth

\* C10: once BeforeFindBestSplit has gated a pair of leaves, both recorded
\* gains are kMinScore and neither leaf is split again in that Train call,
\* so the returned tree has no leaf deeper than max_depth.
C10_GatedLeavesStayLeaves ==
  /\ ~hst.split_after_gate
  /\ \A l \in hst.gated \cap ActiveLeaves :
       Training => best_split_per_leaf_[l].gain = kMinScore
  /\ pc = "done" => ~DeeperThanMaxDepth

\* ForceSplits gives up on the template node it has just dequeued
ForcedAbort == pc = "force_apply" /\ loc'.aborted_last_force_split

\* the iteration of Train's loop that follows an aborted forced split
SkippedSearch ==
  pc = "loop" /\ loc.aborted_last_force_split /\ pc' # "done"

MatchesPartition(ls) ==
  /\ ls.num_data_in_leaf = Cardinality(data_partition_[ls.leaf_index])
  /\ ls.sum_gradients = SumGrad(data_partition_[ls.leaf_index])
  /\ ls.sum_hessians = Cardinality(data_partition_[ls.leaf_index])

\* C13: between the operations of Train (after BeforeTrain, after every Split
\* and after every forced split) each LeafSplits record with leaf_index >= 0
\* has num_data_in_leaf equal to the partition's count for that leaf and
\* sum_gradients, sum_hessians equal to the sums of the gradients and
\* hessians over the partition's examples of that leaf.
C13_LeafSplitsMatchPartition ==
  (Partitioned /\ loc.refit = <<>>) =>
    \A ls \in {smaller_leaf_splits_, larger_leaf_splits_} :
      ls.leaf_index >= 0 => MatchesPartition(ls)

\* C14: at every Train call the capacity of the histogram pool is
\* clamp(2, floor(histogram_pool_size * 2^20 / total histogram bytes),
\* num_leaves) of the current configuration (num_leaves when
\* histogram_pool_size <= 0), after Init and after every ResetConfig,
\* whichever of num_leaves and histogram_pool_size it changed, and so lies in
\* 2 .. num_leaves.
C14_PoolCapacityFollowsConfig ==
  hst.last = "TrainBegin" =>
    /\ PoolCapacity = MaxCacheSize(config_)
    /\ config_.histogram_pool_size.n <= 0 => PoolCapacity = config_.num_leaves
    /\ PoolCapacity \in 2 .. config_.num_leaves

\* feature sampling per tree, per node
TreeSampling == IsBelowOne(config_.feature_fraction)
NodeSampling == IsBelowOne(config_.feature_fraction_bynode)

\* the tree-level mask as a set of inner feature indices
TreeUsed == {f \in Features : is_feature_used_[f]}

\* the real indices of the valid features
ValidFeatures ==
  {valid_feature_indices_[k] : k \in 1 .. Len(valid_feature_indices_)}

\* FindBestSplits has just drawn the node-level masks of a pair of leaves
MasksDrawn == hst.last \in {"ForceFind", "TrainFind"} /\ pc # "ub"

\* C15: with feature sampling active (feature_fraction < 1 or
\* feature_fraction_bynode < 1) the features eligible at a node, the
\* tree-level mask intersected with the node's mask, are valid features and
\* are at least min(2, number of valid features); a node-level mask drawn
\* (feature_fraction_bynode < 1) while tree-level sampling is active is a
\* subset of the tree-level mask.
C15_EligibleFeatures ==
  (MasksDrawn /\ (TreeSampling \/ NodeSampling)) =>
    \A node_used \in {hst.node_used.smaller, hst.node_used.larger} :
      /\ {RealFeatureIndex(f) : f \in TreeUsed \cap node_used}
           \subseteq ValidFeatures
      /\ Cardinality(TreeUsed \cap node_used)
           >= Min2(2, Cardinality(ValidFeatures))
      /\ (TreeSampling /\ NodeSampling) => node_used \subseteq TreeUsed

\* node-level masks drawn inside a tree-level sample that leaves a feature out
C15_Witness ==
  /\ MasksDrawn /\ TreeSampling /\ NodeSampling
  /\ TreeUsed # Features
  /\ hst.node_used.smaller \subseteq TreeUsed
  /\ Len(tree.nodes) >= 1

\* a mask over the inner features as a set
MaskSet(mask) == {f \in Features : mask[f]}

\* the node-level masks of the two leaves drawn from the valid features
\* indexed by subset, with the generator as it is before the step
NodeMasksFrom(subset) ==
  LET u1 == GetUsedFeatures(FALSE, random_, subset)
      u2 == GetUsedFeatures(FALSE, u1.random, subset)
  IN [smaller |-> MaskSet(u1.ret), larger |-> MaskSet(u2.ret)]

\* FindBestSplits runs in this step and draws node-level masks
DrawsNodeMasks ==
  pc \in {"force_find", "find"} /\ pc' # "ub" /\ NodeSampling

\* used_feature_indices_ is the sample the current tree-level mask was made of
SubsetOfCurrentTree ==
  TreeUsed = {InnerFeatureIndex(valid_feature_indices_[used_feature_indices_[k] + 1]) :
                k \in 1 .. Len(used_feature_indices_)}

\* C16: with feature_fraction_bynode < 1 and tree-level sampling disabled
\* (feature_fraction >= 1) every node-level mask is drawn over all the valid
\* features, whatever was sampled for earlier trees or under an earlier
\* configuration; with tree-level sampling it is drawn from the subset
\* sampled for the current tree.
C16_NodeMaskSource ==
  [][DrawsNodeMasks =>
       IF TreeSampling
       THEN /\ SubsetOfCurrentTree
            /\ hst'.node_used = NodeMasksFrom(used_feature_indices_)
       ELSE hst'.node_used = NodeMasksFrom(<<>>)]_vars

\* FitByExistingTree has just returned loc.refit[1] for the tree of the last Train
Refitted == hst.last = "FitByExistingTree"

\* the leaf output FitByExistingTree computes from the examples now in leaf l
RefitOutput(l) ==
  LeafOutput(SumGrad(data_partition_[l]), Cardinality(data_partition_[l]))
    * tree.shrinkage

\* the partition is the one the last Train left: every example routed by the
\* tree it returned
SamePartition ==
  \A l \in ActiveLeaves :
    data_partition_[l] = {i \in Examples : PredictLeaf(tree, i) = l}

\* the refit gives back the leaf outputs of the tree
ReproducesOutputs ==
  \A l \in ActiveLeaves : loc.refit[1].leaf_value[l] = tree.leaf_value[l]

\* the returned tree has the structure of the old one, and every leaf output
\* is the blend of the old output and the refit output of the leaf
RefitIsBlend ==
  /\ loc.refit[1].nodes = tree.nodes
  /\ loc.refit[1].num_leaves_ = tree.num_leaves_
  /\ loc.refit[1].leaf_depth = tree.leaf_depth
  /\ \A l \in ActiveLeaves :
       loc.refit[1].leaf_value[l] * config_.refit_decay_rate.d
         = config_.refit_decay_rate.n * tree.leaf_value[l]
             + (config_.refit_decay_rate.d - config_.refit_decay_rate.n)
                 * RefitOutput(l)

\* the refit is one with decay 0 on the partition and gradients of the Train
\* that grew the tree
SameAsTrained ==
  config_.refit_decay_rate.n = 0 /\ SamePartition /\ used_data_indices_ = {}

\* the tree was grown by free growth alone, with at least one split and
\* without monotone constraints
FreelyGrown ==
  /\ Len(tree.nodes) >= 1
  /\ forced_split_json = JsonNull
  /\ \A f \in Features : monotone_type(f) = 0

MismatchedReset ==
  /\ hst'.last = "ResetTrainingData" /\ hst'.resets = hst.resets + 1
  /\ Len(train_data_'.bins) # num_features_

\* C18: ResetTrainingData with a dataset whose num_features differs from the
\* one given to Init ends in a fatal error, after which the learner takes no
\* further step, and resizes neither the leaf splits nor the data partition
\* nor the ordered gradient buffers for the new dataset.
C18_MismatchedDatasetIsFatal ==
  [][/\ MismatchedReset =>
          /\ pc' = "fatal"
          /\ buffers' = buffers
          /\ both_leaf_splits' = both_leaf_splits
          /\ data_partition_' = data_partition_
     /\ pc = "fatal" => FALSE]_vars

\* the fatal error of a reset to a dataset with another number of examples,
\* for which the buffers would have been resized
C18_Witness ==
  /\ pc = "fatal" /\ hst.last = "ResetTrainingData"
  /\ Len(train_data_.bins) # Cardinality(DOMAIN is_feature_used_)
  /\ buffers.ordered_gradients # Len(train_data_.bins[1])
  /\ Len(tree.nodes) >= 1

\* a split was applied in this step and the learner goes on
SplitKept == SplitApplied /\ pc' \notin {"ub", "fatal"}

\* BeforeFindBestSplit has just returned true
SearchDue == pc \in {"force_find", "find"}

\* each histogram array is the buffer the pool binds to the leaf of the
\* LeafSplits of the same name
ArraysMatchLeafSplits ==
  /\ histogram_pool_.mapper[smaller_leaf_splits_.leaf_index]
       = smaller_leaf_histogram_array_
  /\ IF HasLarger
     THEN histogram_pool_.mapper[larger_leaf_splits_.leaf_index]
            = larger_leaf_histogram_array_
     ELSE larger_leaf_histogram_array_ = Null

TwoLiveBuffers ==
  /\ smaller_leaf_histogram_array_ # larger_leaf_histogram_array_
  /\ {smaller_leaf_histogram_array_, larger_leaf_histogram_array_}
       \subseteq DOMAIN histogram_pool_.slots
  /\ Cardinality(BoundTo(smaller_leaf_histogram_array_)) = 1
  /\ Cardinality(BoundTo(larger_leaf_histogram_array_)) = 1

\* C20: for every pool capacity >= 2 and every sequence of splits, when
\* BeforeFindBestSplit returns true with a right leaf the smaller and the
\* larger histogram array are two distinct bound buffers of the pool, and the
\* split search that follows rebinds and evicts neither.
C20_NoEvictionOfThePair ==
  [][/\ (SearchDue /\ loc.right_leaf >= 0)' => TwoLiveBuffers'
     /\ SearchDue =>
          /\ histogram_pool_'.mapper = histogram_pool_.mapper
          /\ histogram_arrays' = histogram_arrays]_vars

\* a pair of children holds the two buffers of a pool of two, a third leaf
\* of the tree holds none
C20_Witness ==
  /\ SearchDue /\ loc.right_leaf >= 0
  /\ PoolCapacity = 2 /\ tree.num_leaves_ >= 3
  /\ TwoLiveBuffers
  /\ \E l \in ActiveLeaves : histogram_pool_.mapper[l] = Null

\* the histograms FindBestSplitsFromHistograms searches in this state
SearchHists ==
  SubtractHistograms(FeatureMask, UseSubtract,
                     ConstructHistograms(FeatureMask, UseSubtract))

\* the features searched for each leaf and what FindBestThreshold reports
SearchedSmaller == Searched(FeatureMask, NodeUsedFeatures.smaller, TRUE)
SearchedLarger == Searched(FeatureMask, NodeUsedFeatures.larger, HasLarger)
FoundSmaller == Thresholds(SearchHists.smaller, smaller_leaf_splits_, SearchedSmaller)
FoundLarger == Thresholds(SearchHists.larger, larger_leaf_splits_, SearchedLarger)

\* the feature loop run by one thread alone
WholeLoop == [t \in 0 .. 1 |-> IF t = 0 THEN 0 ELSE num_features_]

OneThreadBest(node_used, found) ==
  ThreadBest(WholeLoop, 0, 0, FeatureMask, node_used, found, DefaultSplitInfo)

\* FindBestSplits runs in this step and returns
SearchStep == SearchDue /\ pc' # "ub"

\* no searched feature has a candidate that operator> prefers to s, and a
\* candidate of the same gain has a real feature index that is not smaller
BestByRealIndex(s, found, searched) ==
  \A f \in Features :
    searched[f] =>
      /\ found[f].split.gain <= s.gain
      /\ found[f].split.gain = s.gain
           => FeatureOrMax(s.feature) <= RealFeatureIndex(f)

\* the same with the inner feature index
BestByInnerIndex(s, found, searched) ==
  \A f \in Features :
    searched[f] =>
      /\ found[f].split.gain <= s.gain
      /\ (found[f].split.gain = s.gain /\ s.feature >= 0)
           => InnerFeatureIndex(s.feature) <= f

\* the stored splits are those of the one-thread loop, whatever the division
SameForEveryDivision ==
  /\ best_split_per_leaf_'[smaller_leaf_splits_.leaf_index]
       = OneThreadBest(NodeUsedFeatures.smaller, FoundSmaller)
  /\ HasLarger =>
       best_split_per_leaf_'[larger_leaf_splits_.leaf_index]
         = OneThreadBest(NodeUsedFeatures.larger, FoundLarger)
  /\ \A cuts \in Chunkings : FindBestSplits(cuts).best = best_split_per_leaf_'
  /\ \A l \in DOMAIN best_split_per_leaf_ :
       l \notin {smaller_leaf_splits_.leaf_index, larger_leaf_splits_.leaf_index}
         => best_split_per_leaf_'[l] = best_split_per_leaf_[l]

\* C21: FindBestSplitsFromHistograms stores for the smaller and for the
\* larger leaf the split the feature loop finds when one thread runs it
\* alone, for every number of threads and every division of the features
\* among them, and writes no other leaf's entry; no searched feature has a
\* greater gain than the stored split, and on equal gain the stored split has
\* the smallest real feature index (SplitInfo.feature).
C21_SameBestForEveryDivision ==
  [][SearchStep =>
       /\ SameForEveryDivision
       /\ BestByRealIndex(best_split_per_leaf_'[smaller_leaf_splits_.leaf_index],
                          FoundSmaller, SearchedSmaller)
       /\ HasLarger =>
            BestByRealIndex(best_split_per_leaf_'[larger_leaf_splits_.leaf_index],
                            FoundLarger, SearchedLarger)]_vars

\* two threads have searched a leaf on which two features tie for the
\* stored gain
C21_Witness ==
  /\ hst.last \in {"ForceFind", "TrainFind"} /\ pc # "ub"
  /\ config_.num_threads = 2
  /\ \E l \in DOMAIN hst.evaluated :
       /\ best_split_per_leaf_[l].gain > 0
       /\ \E f \in hst.evaluated[l], t \in 0 .. NumBin - 2 :
            /\ RealFeatureIndex(f) # best_split_per_leaf_[l].feature
            /\ CandidateGain(l, f, t) = best_split_per_leaf_[l].gain

\* C21 as stated, the feature index being the index of the feature loop: on
\* equal gain the stored split has the smallest inner feature index
C21_SmallestInnerIndexWins ==
  [][SearchStep =>
       /\ SameForEveryDivision
       /\ BestByInnerIndex(best_split_per_leaf_'[smaller_leaf_splits_.leaf_index],
                           FoundSmaller, SearchedSmaller)
       /\ HasLarger =>
            BestByInnerIndex(best_split_per_leaf_'[larger_leaf_splits_.leaf_index],
                             FoundLarger, SearchedLarger)]_vars

RECURSIVE LeavesBelow(_, _)
\* the leaves that the nodes j .. of the tree make out of the leaves in set
LeavesBelow(j, set) ==
  IF j > Len(tree.nodes) THEN set
  ELSE LeavesBelow(j + 1, IF tree.nodes[j].leaf \in set
                          THEN set \cup {tree.nodes[j].right_leaf}
                          ELSE set)

\* the leaves of the left and of the right subtree of node k
LeftLeaves(k) == LeavesBelow(k + 1, {tree.nodes[k].leaf})
RightLeaves(k) == LeavesBelow(k + 1, {tree.nodes[k].right_leaf})

\* every leaf output left of node k is on the side of every leaf output right
\* of it that the monotone direction of the node's feature asks for
MonotoneBelow(k) ==
  \A a \in LeftLeaves(k), b \in RightLeaves(k) :
    /\ monotone_type(tree.nodes[k].split_feature_inner) > 0
         => tree.leaf_value[a] <= tree.leaf_value[b]
    /\ monotone_type(tree.nodes[k].split_feature_inner) < 0
         => tree.leaf_value[a] >= tree.leaf_value[b]

\* the two children of the split just applied have the parent's bounds,
\* updated by the split
ChildrenInheritBounds ==
  constraints_' =
    UpdateConstraints(constraints_, TRUE, NewNode.leaf, NewNode.right_leaf,
                      monotone_type(NewNode.split_feature_inner),
                      NewNode.right_output, NewNode.left_output)

\* C22: after every split applied during Train, by the free-growth Split or
\* by a forced split, the two children have the parent's output bounds
\* updated by the split's monotone direction and outputs, and for every node
\* on a monotone feature every leaf output of its left subtree is <=
\* (increasing) or >= (decreasing) every leaf output of its right subtree.
C22_ChildrenInheritMonotoneBounds ==
  [][(SplitKept /\ loc.refit = <<>>) =>
       /\ ChildrenInheritBounds
       /\ \A k \in 1 .. Len(tree'.nodes) : MonotoneBelow(k)']_vars

\* RenewTreeOutput is called in this step
RenewStep == pc = "done" /\ hst.renew = <<>> /\ hst'.renew # <<>>

\* the objective asks for renewal and the bag, if any, has num_data_ indices
RenewalAsked ==
  /\ hst'.renew[1].obj = "renew"
  /\ hst'.renew[1].total_num_data # num_data_
       => Len(hst'.renew[1].bag_indices) = num_data_

\* the output and the presence this machine contributes for leaf l
LocalOutput(l) ==
  IF data_partition_[l] = {} THEN 0
  ELSE ObjRenewTreeOutput(tree.leaf_value[l], data_partition_[l],
                          IF hst'.renew[1].total_num_data # num_data_
                          THEN hst'.renew[1].bag_indices ELSE <<>>,
                          Cardinality(data_partition_[l]))

LocalPresence(l) == IF data_partition_[l] = {} THEN 0 ELSE 1

\* C23: RenewTreeOutput leaves the tree unchanged when the objective is null
\* or does not ask for renewal; otherwise, on a single machine, a leaf with 0
\* examples is a fatal error and every leaf gets the objective's renewed
\* output; on several machines a leaf with 0 local examples counts as 0 and
\* absent, and every leaf's output is the sum of the machines' outputs
\* divided by the number of machines the leaf is present on. The structure
\* of the tree is never changed.
C23_RenewTreeOutput ==
  [][RenewStep =>
       /\ hst'.renew[1].obj # "renew" => (tree' = tree /\ pc' = "renewed")
       /\ [tree' EXCEPT !.leaf_value = tree.leaf_value] = tree
       /\ RenewalAsked =>
            IF hst'.renew[1].num_machines = 1
            THEN IF \E l \in ActiveLeaves : data_partition_[l] = {}
                 THEN pc' = "fatal"
                 ELSE /\ pc' = "renewed"
                      /\ \A l \in ActiveLeaves :
                           tree'.leaf_value[l] = LocalOutput(l)
            ELSE /\ pc' = "renewed"
                 /\ \A l \in ActiveLeaves :
                      tree'.leaf_value[l]
                          * (LocalPresence(l) + OtherMachine(tree)[l].n_nozeroworker)
                        = LocalOutput(l) + OtherMachine(tree)[l].output]_vars

\* a renewal on two machines of a tree one leaf of which holds no local
\* example and another one examples on both machines
C23_Witness ==
  /\ pc = "renewed" /\ hst.renew # <<>>
  /\ hst.renew[1].obj = "renew" /\ hst.renew[1].num_machines = 2
  /\ \E l \in ActiveLeaves :
       data_partition_[l] = {} /\ tree.leaf_value[l] = 2 * Unit
  /\ data_partition_[0] # {} /\ tree.leaf_value[0] # 2 * Unit

\* ForceSplits scores a template node for the leaf it then splits in the
\* same pass of its loop
ForcedSplitStep == pc = "force_apply" /\ SplitKept

\* the histogram of the template node's feature in the given array is the
\* one of the examples of leaf, and ls holds that leaf's sums and count
ScoredOnOwn(node, leaf, array, ls) ==
  LET f == InnerFeatureIndex(node[1].feature)
  IN /\ histogram_pool_.slots[array].hist[f]
          = HistOver(data_partition_[leaf], f)
     /\ ls.leaf_index = leaf
     /\ ls.sum_gradients = SumGrad(data_partition_[leaf])
     /\ ls.sum_hessians = Cardinality(data_partition_[leaf])
     /\ ls.num_data_in_leaf = Cardinality(data_partition_[leaf])

\* C24: a forced split that ForceSplits scores and applies was scored on the
\* histogram of the examples of the leaf it splits, with that leaf's sums
\* and count, whether or not BeforeFindBestSplit returned true for the
\* current pair.
C24_ForcedSplitScoredOnOwnHistogram ==
  [][ForcedSplitStep =>
       /\ (loc.left # JsonNull /\ NewNode.leaf = loc.left_leaf) =>
            ScoredOnOwn(loc.left, loc.left_leaf,
                        IF loc.left_smaller THEN smaller_leaf_histogram_array_
                        ELSE larger_leaf_histogram_array_,
                        IF loc.left_smaller THEN smaller_leaf_splits_
                        ELSE larger_leaf_splits_)
       /\ (loc.right # JsonNull /\ NewNode.leaf = loc.right_leaf) =>
            ScoredOnOwn(loc.right, loc.right_leaf,
                        IF loc.left_smaller THEN larger_leaf_histogram_array_
                        ELSE smaller_leaf_histogram_array_,
                        IF loc.left_smaller THEN larger_leaf_splits_
                        ELSE smaller_leaf_splits_)]_vars

\* the entry of leaf l is the "no viable split" sentinel
IsSentinel(l) == best_split_per_leaf_[l].gain = kMinScore

\* the entry of leaf l is a candidate of the examples now in leaf l: its gain
\* is the gain of its (feature, threshold) on them and its sums are theirs
FromCurrentExamples(l) ==
  /\ \E f \in Features :
       /\ RealFeatureIndex(f) = best_split_per_leaf_[l].feature
       /\ best_split_per_leaf_[l].threshold \in 0 .. NumBin - 2
       /\ CandidateGain(l, f, best_split_per_leaf_[l].threshold)
            = best_split_per_leaf_[l].gain
  /\ best_split_per_leaf_[l].left_sum_gradient
       + best_split_per_leaf_[l].right_sum_gradient
       = SumGrad(data_partition_[l])
  /\ best_split_per_leaf_[l].left_count + best_split_per_leaf_[l].right_count
       = Cardinality(data_partition_[l])

\* C25: whenever Train selects the leaf to split, the entry of every active
\* leaf is the sentinel or a split computed from the leaf's current examples,
\* the entry of every inactive leaf id is the sentinel, and the selected leaf
\* is active.
C25_NoStaleBestSplit ==
  pc = "select" =>
    /\ \A l \in DOMAIN best_split_per_leaf_ :
         IF l \in ActiveLeaves
         THEN IsSentinel(l) \/ FromCurrentExamples(l)
         ELSE IsSentinel(l)
    /\ BestLeaf \in ActiveLeaves

\* the leaf ids of the current configuration
LeafIds == 0 .. config_.num_leaves - 1

\* C26: when a Train call starts, after Init and any ResetConfig calls,
\* best_split_per_leaf_, the leaves of the DataPartition, the entries of the
\* LeafConstraints and the leaf map of the histogram pool each have room for
\* exactly the leaf ids 0 .. num_leaves - 1 of the current configuration.
C26_PerLeafArraysSized ==
  [][(pc \in {"idle", "done"} /\ ~hst.refitted /\ hst'.last = "TrainBegin") =>
       /\ DOMAIN best_split_per_leaf_ = LeafIds
       /\ DOMAIN data_partition_ = LeafIds
       /\ DOMAIN constraints_ = LeafIds
       /\ DOMAIN histogram_pool_.mapper = LeafIds]_vars

\* a step of Train, by a forced split or by free growth, applied a split
TrainSplitStep == pc \in {"force_apply", "select"} /\ SplitApplied

\* after the step every leaf of the tree holds at least one example
ChildrenNonEmpty ==
  \A l \in 0 .. tree'.num_leaves_ - 1 :
    l \in DOMAIN data_partition_' /\ data_partition_'[l] # {}

\* C27: every split Train applies, forced or by free growth, leaves both
\* children with at least one example, and a free-growth split with an empty
\* child ends in the fatal check; so every leaf of the returned tree holds at
\* least one example.
C27_NoEmptyLeaf ==
  [][(TrainSplitStep /\ pc' # "ub") =>
       \/ ChildrenNonEmpty
       \/ pc = "select" /\ pc' = "fatal"]_vars

InForceSplits == pc \in {"force_before", "force_find", "force_apply"}

\* the forced splits of the templates in the queue and below them, in
\* breadth-first order
RECURSIVE BreadthFirst(_)
BreadthFirst(queue) ==
  IF queue = <<>> THEN <<>>
  ELSE LET node == Head(queue)
           Both(child) ==
             IF child # <<>>
                /\ {"feature", "threshold"} \subseteq DOMAIN child[1]
             THEN child ELSE <<>>
       IN <<node>> \o BreadthFirst(Tail(queue) \o Both(node.left)
                                               \o Both(node.right))

\* the forced splits applied so far are the first nodes of the template in
\* breadth-first order, each one once
ForcedInBreadthFirstOrder ==
  LET order == BreadthFirst(forced_split_json)
  IN /\ hst.forced = 1 .. Cardinality(hst.forced)
     /\ Cardinality(hst.forced) <= Len(order)
     /\ \A i \in hst.forced :
          /\ tree.nodes[i].split_feature = order[i].feature
          /\ tree.nodes[i].threshold_in_bin
               = BinThreshold(InnerFeatureIndex(order[i].feature),
                              order[i].threshold)

\* a pass of the loop of ForceSplits, from the scoring to its end
ForcePass == pc = "force_apply" /\ hst'.last = "ForceApply" /\ pc' # "ub"

\* the entries the pass has pushed
Enqueued == SubSeq(loc'.q, Len(loc.q), Len(loc'.q))

\* the pass pops the front entry and pushes at most the left and the right
\* child of its node, each only with both keys
OneDequeuePerPass ==
  LET node == Head(loc.q).json
      IsChild(e, child, leaf) ==
        /\ child # <<>>
        /\ e.json = child[1]
        /\ e.leaf = leaf
        /\ {"feature", "threshold"} \subseteq DOMAIN e.json
  IN /\ loc.q # <<>>
     /\ Len(loc'.q) >= Len(loc.q) - 1
     /\ SubSeq(loc'.q, 1, Len(loc.q) - 1) = Tail(loc.q)
     /\ Len(Enqueued) <= 2
     /\ \A i \in DOMAIN Enqueued :
          \/ IsChild(Enqueued[i], node.left, loc'.left_leaf)
          \/ IsChild(Enqueued[i], node.right, loc'.right_leaf)
     /\ Len(Enqueued) = 2 => Enqueued[1] # Enqueued[2]
     /\ IF SplitApplied
        THEN Len(tree'.nodes) \in hst'.forced
        ELSE Enqueued = <<>> /\ loc'.aborted_last_force_split

\* ForceSplits returns to Train the number of forced splits it applied
ReturnsCount ==
  (InForceSplits /\ pc' = "loop") =>
     /\ loc'.init_splits = Cardinality(hst'.forced)
     /\ loc'.init_splits = Len(tree'.nodes)

\* C28: ForceSplits ends for every template, and so does Train; each pass of
\* its loop pops one template node and pushes at most its left and right
\* children that have both "feature" and "threshold"; the forced splits are
\* applied once each in breadth-first order, and the count returned is the
\* number of forced splits applied.
C28_ForceSplitsTerminates ==
  /\ InForceSplits ~> ~InForceSplits
  /\ Training ~> ~Training
  /\ [][ForcePass => OneDequeuePerPass]_vars
  /\ [][ReturnsCount]_vars
  /\ [](Training => ForcedInBreadthFirstOrder)

\* ForceSplits has returned two forced splits for a template whose root has
\* three children entries, one of them without a threshold
C28_Witness ==
  /\ pc = "loop" /\ hst.last = "ForceApply"
  /\ forced_split_json = Template7
  /\ loc.init_splits = 2 /\ hst.forced = {1, 2}
  /\ loc.q = <<>> /\ ~loc.aborted_last_force_split

====
